---------------------------- MODULE Spec2Model ----------------------------
(***************************************************************************)
(* A model of the bevy-fluid-sim Simulation (src/src/sim_impl.rs,          *)
(* sim_sfs_impl.rs, sim_settings.rs, spatial_hash.rs) and of the systems   *)
(* and keyboard commands that drive it (src/src/main.rs, keyboard.rs).     *)
(*                                                                         *)
(* Numbers.  An f32 is modelled as a fixed-point number: the integer n     *)
(* stands for n / ONE.  Arithmetic rounds toward zero, which like IEEE     *)
(* rounding is symmetric in the sign.  The three non-finite f32 values     *)
(* are kept as the sentinels PInf, NInf and NaN and are propagated by      *)
(* every operation the way IEEE 754 propagates them.                       *)
(*                                                                         *)
(* A Vec2 is the record [x |-> f32, y |-> f32].  The Simulation struct is  *)
(* the record `sim`; a &self method is an operator of the record and a     *)
(* &mut self method an operator that returns the record after the call.    *)
(***************************************************************************)
EXTENDS Integers, Sequences, FiniteSets, TLC

(***************************************************************************)
(* f32                                                                     *)
(***************************************************************************)
ONE == 10 ^ 3

MaxInt == (2 ^ 30 - 1) * 2 + 1

PInf == 2 ^ 30
NInf == -(2 ^ 30)
NaN == 2 ^ 30 + 1

IsNaN(a) == a = NaN
IsInf(a) == a = PInf \/ a = NInf
IsFinite(a) == a > NInf /\ a < PInf

IAbs(n) == IF n < 0 THEN -n ELSE n

\* Integer division rounding toward zero.
DivT(a, b) ==
  IF (a >= 0) = (b > 0) THEN IAbs(a) \div IAbs(b) ELSE -(IAbs(a) \div IAbs(b))

\* A finite result outside the representable range becomes an infinity.
Sat(n) == IF n >= PInf THEN PInf ELSE IF n <= NInf THEN NInf ELSE n

SignInf(positive) == IF positive THEN PInf ELSE NInf

Neg(a) == IF IsNaN(a) THEN NaN ELSE -a

Add(a, b) ==
  IF IsNaN(a) \/ IsNaN(b) THEN NaN
  ELSE IF IsInf(a) THEN (IF IsInf(b) /\ a # b THEN NaN ELSE a)
  ELSE IF IsInf(b) THEN b
  ELSE Sat(a + b)

Sub(a, b) == Add(a, Neg(b))

Mul(a, b) ==
  IF IsNaN(a) \/ IsNaN(b) THEN NaN
  ELSE IF IsInf(a) \/ IsInf(b)
    THEN (IF a = 0 \/ b = 0 THEN NaN ELSE SignInf((a > 0) = (b > 0)))
  ELSE IF a = 0 \/ b = 0 THEN 0
  ELSE IF IAbs(a) > MaxInt \div IAbs(b) THEN SignInf((a > 0) = (b > 0))
  ELSE Sat(DivT(a * b, ONE))

Div(a, b) ==
  IF IsNaN(a) \/ IsNaN(b) THEN NaN
  ELSE IF IsInf(a) THEN (IF IsInf(b) THEN NaN ELSE SignInf((a > 0) = (b >= 0)))
  ELSE IF IsInf(b) THEN 0
  ELSE IF b = 0 THEN (IF a = 0 THEN NaN ELSE SignInf(a > 0))
  ELSE IF IAbs(a) <= MaxInt \div ONE THEN Sat(DivT(a * ONE, b))
  ELSE IF IAbs(DivT(a, b)) >= PInf \div ONE THEN SignInf((a > 0) = (b > 0))
  ELSE DivT(a, b) * ONE

\* Comparisons: every comparison with a NaN is false.
Lt(a, b) == ~IsNaN(a) /\ ~IsNaN(b) /\ a < b
Le(a, b) == ~IsNaN(a) /\ ~IsNaN(b) /\ a <= b
Gt(a, b) == ~IsNaN(a) /\ ~IsNaN(b) /\ a > b
Ge(a, b) == ~IsNaN(a) /\ ~IsNaN(b) /\ a >= b

\* f32::max and f32::min return the other operand when one is a NaN.
Max(a, b) == IF IsNaN(a) THEN b ELSE IF IsNaN(b) THEN a ELSE IF a >= b THEN a ELSE b
Min(a, b) == IF IsNaN(a) THEN b ELSE IF IsNaN(b) THEN a ELSE IF a <= b THEN a ELSE b

Abs(a) == IF IsNaN(a) THEN NaN ELSE IAbs(a)

\* f32::signum: 1.0 for +0.0 and every positive number, -1.0 for the negative ones.
Signum(a) == IF IsNaN(a) THEN NaN ELSE IF a >= 0 THEN ONE ELSE -ONE

\* f32::clamp(min, max)
Clamp(a, lo, hi) == IF IsNaN(a) THEN NaN ELSE IF a < lo THEN lo ELSE IF a > hi THEN hi ELSE a

RECURSIVE ISqrtIter(_, _, _)
ISqrtIter(n, lo, hi) ==
  IF hi - lo <= 1 THEN lo
  ELSE LET mid == (lo + hi) \div 2
       IN IF mid * mid <= n THEN ISqrtIter(n, mid, hi) ELSE ISqrtIter(n, lo, mid)

\* The largest r with r * r <= n, for 0 <= n <= MaxInt.
ISqrt(n) == ISqrtIter(n, 0, 46341)

Sqrt(a) ==
  IF IsNaN(a) \/ a < 0 THEN NaN
  ELSE IF a = PInf THEN PInf
  ELSE IF a <= MaxInt \div ONE THEN ISqrt(a * ONE)
  ELSE ISqrt(a) * ISqrt(ONE)

\* f32::floor
Floor(a) == IF ~IsFinite(a) THEN a ELSE (a \div ONE) * ONE

\* f32::powf for the exponents the program uses (4.0, 5.0 and 8.0).
Powf(a, n) ==
  LET p2 == Mul(a, a)
      p4 == Mul(p2, p2)
  IN CASE n = 4 -> p4
       [] n = 5 -> Mul(p4, a)
       [] n = 8 -> Mul(p4, p4)

\* A literal with three decimals: F(0, 670) is 0.67.
F(units, thousandths) == units * ONE + thousandths

\* `f as usize`: saturating, NaN becomes 0.  usize::MAX is modelled by UsizeMax.
UsizeMax == MaxInt
AsUsize(a) ==
  IF IsNaN(a) \/ a <= 0 THEN 0 ELSE IF a = PInf THEN UsizeMax ELSE a \div ONE

\* `f as i32` of a floored value: saturating, NaN becomes 0.
AsI32(a) ==
  IF IsNaN(a) THEN 0 ELSE IF a = PInf THEN PInf ELSE IF a = NInf THEN NInf ELSE a \div ONE

\* `n as f32` of a small integer.
FromInt(n) == n * ONE

(***************************************************************************)
(* Vec2                                                                    *)
(***************************************************************************)
Vec2(x, y) == [x |-> x, y |-> y]
ZERO == Vec2(0, 0)
VAdd(a, b) == Vec2(Add(a.x, b.x), Add(a.y, b.y))
VSub(a, b) == Vec2(Sub(a.x, b.x), Sub(a.y, b.y))
VMul(a, f) == Vec2(Mul(a.x, f), Mul(a.y, f))
VDiv(a, f) == Vec2(Div(a.x, f), Div(a.y, f))
VSubS(a, f) == Vec2(Sub(a.x, f), Sub(a.y, f))
VNeg(a) == Vec2(Neg(a.x), Neg(a.y))
Dot(a, b) == Add(Mul(a.x, b.x), Mul(a.y, b.y))
VFinite(a) == IsFinite(a.x) /\ IsFinite(a.y)

\* Vec2::length: sqrt(x*x + y*y), rounded once.
Length(a) ==
  IF VFinite(a) /\ IAbs(a.x) < 2 ^ 15 /\ IAbs(a.y) < 2 ^ 15
    THEN ISqrt(a.x * a.x + a.y * a.y)
    ELSE Sqrt(Dot(a, a))

\* Vec2::clamp_length_max
ClampLengthMax(a, max) ==
  LET length_sq == Dot(a, a)
  IN IF Gt(length_sq, Mul(max, max)) THEN VMul(VDiv(a, Sqrt(length_sq)), max) ELSE a


(***************************************************************************)
(* Generic helpers                                                         *)
(***************************************************************************)
RECURSIVE SumF(_)
\* The f32 accumulation `acc += term` over a sequence of terms, in order.
SumF(terms) ==
  IF terms = <<>> THEN 0
  ELSE Add(SumF(SubSeq(terms, 1, Len(terms) - 1)), terms[Len(terms)])

RECURSIVE SumV(_)
\* The Vec2 accumulation `acc += term` over a sequence of terms, in order.
SumV(terms) ==
  IF terms = <<>> THEN ZERO
  ELSE VAdd(SumV(SubSeq(terms, 1, Len(terms) - 1)), terms[Len(terms)])

RECURSIVE Concat(_)
Concat(seqs) ==
  IF seqs = <<>> THEN <<>>
  ELSE Concat(SubSeq(seqs, 1, Len(seqs) - 1)) \o seqs[Len(seqs)]

\* The ids 0 .. n-1 in increasing order, as `for i in 0..n` visits them.
IdSeq(n) == [k \in 1..n |-> k - 1]

Range(seq) == {seq[k] : k \in DOMAIN seq}

(***************************************************************************)
(* Program constants                                                       *)
(***************************************************************************)
PI == 3141

\* A scan of the particle's own cell only.
OFFSETS_2D_own_cell == << <<0, 0>> >>

OFFSETS_2D ==
  << <<-1, 1>>, <<0, 1>>, <<1, 1>>,
     <<-1, 0>>, <<0, 0>>, <<1, 0>>,
     <<-1, -1>>, <<0, -1>>, <<1, -1>> >>

\* u32 counters (DebugParams) are modelled with CounterBits bits instead of 32.
CounterBits == 3
U32_MAX == 2 ^ CounterBits - 1

(***************************************************************************)
(* Simulation::new  (ARGS is the record `args`)                            *)
(***************************************************************************)
new(args, window_width, window_height) ==
  LET num_particles == args.num
      window_area == Mul(window_width, window_height)
      particle_size0 == Sqrt(Div(Mul(window_area, F(0, 670)), FromInt(num_particles)))
      scale == Div(F(0, 83), particle_size0)
      particle_size == Mul(particle_size0, scale)
      smoothing_radius == args.smoothing_radius
  IN [ smoothing_radius |-> smoothing_radius,
       smoothing_scaling_factor |-> Div(F(6, 0), Mul(PI, Powf(smoothing_radius, 4))),
       smoothing_derivative_scaling_factor |-> Div(Mul(PI, Powf(smoothing_radius, 4)), F(6, 0)),
       num_particles |-> num_particles,
       particle_size |-> particle_size,
       scale |-> scale,
       half_bounds_size |->
         VSubS(VDiv(VMul(Vec2(window_width, window_height), scale), F(2, 0)),
               Div(particle_size, F(2, 0))),
       gravity |-> Vec2(0, Neg(args.gravity)),
       target_density |-> Div(F(1, 500), scale),
       pressure_multiplier |-> FromInt(args.pressure_multiplier),
       near_pressure_multiplier |-> F(100, 0),
       viscosity_strength |-> 0,
       speed_limit |-> args.speed_limit,
       collision_damping |-> args.collision_damping,
       interaction_input_strength |-> 0,
       interaction_input_radius |-> Mul(FromInt(args.interaction_input_radius), particle_size),
       interaction_input_point |-> ZERO,
       positions |-> [i \in 0..num_particles - 1 |-> ZERO],
       velocities |-> [i \in 0..num_particles - 1 |-> ZERO],
       densities |-> [i \in 0..num_particles - 1 |-> <<0, 0>>],
       region_rows |-> 0,
       region_cols |-> 0,
       regions |-> <<>>,
       prediction_factor |-> Div(F(1, 0), F(120, 0)),
       predicted_positions |-> [i \in 0..num_particles - 1 |-> ZERO],
       spatial_offsets |-> [i \in 0..num_particles - 1 |-> 0],
       spatial_keys |-> [i \in 0..num_particles - 1 |-> 0],
       spatial_indices |-> [i \in 0..num_particles - 1 |-> <<0, 0, 0>>],
       poly6_scaling_factor |-> Div(F(4, 0), Mul(PI, Powf(smoothing_radius, 8))),
       spiky_pow3_scaling_factor |-> Div(F(10, 0), Mul(PI, Powf(smoothing_radius, 5))),
       spiky_pow2_scaling_factor |-> Div(F(6, 0), Mul(PI, Powf(smoothing_radius, 4))),
       spiky_pow3_derivative_scaling_factor |-> Div(F(30, 0), Mul(Powf(smoothing_radius, 5), PI)),
       spiky_pow2_derivative_scaling_factor |-> Div(F(12, 0), Mul(Powf(smoothing_radius, 4), PI)),
       debug |-> [ use_sfs |-> FALSE,
                   current_frame |-> 0,
                   frames_to_show |-> U32_MAX,
                   log_frame |-> 0,
                   show_fps |-> FALSE,
                   show_smoothing_radius |-> FALSE,
                   show_region_grid |-> FALSE,
                   use_inertia |-> TRUE,
                   use_viscosity |-> TRUE,
                   use_heatmap |-> TRUE ] ]

\* Simulation::place_particles; random[i] is the pair of random::<f32>() draws of particle i.
place_particles(s, random) ==
  LET bounds == VMul(s.half_bounds_size, F(0, 800))
      pos(i) == Vec2(Add(Neg(bounds.x), Mul(Mul(random[i][1], bounds.x), F(2, 0))),
                     Add(Neg(bounds.y), Mul(Mul(random[i][2], bounds.y), F(2, 0))))
  IN [s EXCEPT !.positions = [i \in 0..s.num_particles - 1 |-> pos(i)],
               !.predicted_positions = [i \in 0..s.num_particles - 1 |-> pos(i)],
               !.velocities = [i \in 0..s.num_particles - 1 |-> ZERO]]

(***************************************************************************)
(* Kernels (sim_impl.rs and sim_sfs_impl.rs)                               *)
(***************************************************************************)
\* smoothing_kernel with the first power of (h - distance) and no cutoff.
smoothing_kernel_first_power(s, distance) ==
  Mul(Sub(s.smoothing_radius, distance), s.smoothing_scaling_factor)

\* smoothing_kernel without its cutoff at the smoothing radius.
smoothing_kernel_no_cutoff(s, distance) ==
  Mul(Mul(Sub(s.smoothing_radius, distance), Sub(s.smoothing_radius, distance)),
      s.smoothing_scaling_factor)

smoothing_kernel(s, distance) ==
  IF Ge(distance, s.smoothing_radius) THEN 0
  ELSE Mul(Mul(Sub(s.smoothing_radius, distance), Sub(s.smoothing_radius, distance)),
           s.smoothing_scaling_factor)

smoothing_kernel_derivative(s, distance) ==
  IF Ge(distance, s.smoothing_radius) THEN 0
  ELSE Mul(Sub(distance, s.smoothing_radius), s.smoothing_derivative_scaling_factor)

sfs_smoothing_kernel_poly6(s, distance) ==
  IF Lt(distance, s.smoothing_radius)
    THEN LET v == Sub(Mul(s.smoothing_radius, s.smoothing_radius), Mul(distance, distance))
         IN Mul(Mul(Mul(v, v), v), s.poly6_scaling_factor)
    ELSE 0

sfs_spiky_kernel_pow3(s, distance) ==
  IF Lt(distance, s.smoothing_radius)
    THEN LET v == Sub(s.smoothing_radius, distance)
         IN Mul(Mul(Mul(v, v), v), s.spiky_pow3_scaling_factor)
    ELSE 0

sfs_spiky_kernel_pow2(s, distance) ==
  IF Lt(distance, s.smoothing_radius)
    THEN LET v == Sub(s.smoothing_radius, distance)
         IN Mul(Mul(v, v), s.spiky_pow2_scaling_factor)
    ELSE 0

sfs_derivative_spiky_pow3(s, distance) ==
  IF Lt(distance, s.smoothing_radius)
    THEN LET v == Sub(s.smoothing_radius, distance)
         IN Mul(Mul(Neg(v), v), s.spiky_pow3_derivative_scaling_factor)
    ELSE 0

sfs_derivative_spiky_pow2(s, distance) ==
  IF Lt(distance, s.smoothing_radius)
    THEN LET v == Sub(s.smoothing_radius, distance)
         IN Mul(Neg(v), s.spiky_pow2_derivative_scaling_factor)
    ELSE 0

sfs_density_kernel(s, distance) == sfs_spiky_kernel_pow2(s, distance)
sfs_near_density_kernel(s, distance) == sfs_spiky_kernel_pow3(s, distance)
sfs_density_derivative(s, distance) == sfs_derivative_spiky_pow2(s, distance)
sfs_near_density_derivative(s, distance) == sfs_derivative_spiky_pow3(s, distance)
sfs_viscosity_kernel(s, distance) == sfs_smoothing_kernel_poly6(s, distance)

(***************************************************************************)
(* The region grid (sim_impl.rs)                                           *)
(***************************************************************************)
\* The row and column update_regions computes for particle i before clamping,
\* and the ones calculate_density / pressure_force compute for their scan.
particle_col(s, i) ==
  AsUsize(Div(Sub(s.positions[i].x, Neg(s.half_bounds_size.x)), s.smoothing_radius))
particle_row(s, i) ==
  AsUsize(Div(Sub(s.positions[i].y, Neg(s.half_bounds_size.y)), s.smoothing_radius))

\* usize::clamp(0, max)
ClampUsize(n, lo, hi) == IF n < lo THEN lo ELSE IF n > hi THEN hi ELSE n

\* update_regions with one more row and column than `as usize + 1` gives.
update_regions_rounded_up(s) ==
  LET width == Mul(s.half_bounds_size.x, F(2, 0))
      height == Mul(s.half_bounds_size.y, F(2, 0))
      cols == AsUsize(Div(width, s.smoothing_radius)) + 2
      rows == AsUsize(Div(height, s.smoothing_radius)) + 2
      resized == s.region_rows # rows \/ s.region_cols # cols
      cleared ==
        IF resized
          THEN [row \in 0..rows - 1 |-> [col \in 0..cols - 1 |-> <<>>]]
          ELSE [row \in DOMAIN s.regions |->
                 [col \in DOMAIN s.regions[row] |->
                   IF row < rows /\ col < cols THEN <<>> ELSE s.regions[row][col]]]
      col_of(i) == ClampUsize(particle_col(s, i), 0, cols - 1)
      row_of(i) == ClampUsize(particle_row(s, i), 0, rows - 1)
      pushed(row, col) ==
        SelectSeq(IdSeq(s.num_particles), LAMBDA i : row_of(i) = row /\ col_of(i) = col)
  IN [s EXCEPT !.region_rows = rows,
               !.region_cols = cols,
               !.regions = [row \in DOMAIN cleared |->
                             [col \in DOMAIN cleared[row] |->
                               cleared[row][col] \o pushed(row, col)]]]

\* update_regions that leaves the buckets of an unchanged grid as they are.
update_regions_keeps_buckets(s) ==
  LET width == Mul(s.half_bounds_size.x, F(2, 0))
      height == Mul(s.half_bounds_size.y, F(2, 0))
      cols == AsUsize(Div(width, s.smoothing_radius)) + 1
      rows == AsUsize(Div(height, s.smoothing_radius)) + 1
      resized == s.region_rows # rows \/ s.region_cols # cols
      cleared ==
        IF resized
          THEN [row \in 0..rows - 1 |-> [col \in 0..cols - 1 |-> <<>>]]
          ELSE s.regions
      col_of(i) == ClampUsize(particle_col(s, i), 0, cols - 1)
      row_of(i) == ClampUsize(particle_row(s, i), 0, rows - 1)
      pushed(row, col) ==
        SelectSeq(IdSeq(s.num_particles), LAMBDA i : row_of(i) = row /\ col_of(i) = col)
  IN [s EXCEPT !.region_rows = rows,
               !.region_cols = cols,
               !.regions = [row \in DOMAIN cleared |->
                             [col \in DOMAIN cleared[row] |->
                               cleared[row][col] \o pushed(row, col)]]]

update_regions(s) ==
  LET width == Mul(s.half_bounds_size.x, F(2, 0))
      height == Mul(s.half_bounds_size.y, F(2, 0))
      cols == AsUsize(Div(width, s.smoothing_radius)) + 1
      rows == AsUsize(Div(height, s.smoothing_radius)) + 1
      resized == s.region_rows # rows \/ s.region_cols # cols
      cleared ==
        IF resized
          THEN [row \in 0..rows - 1 |-> [col \in 0..cols - 1 |-> <<>>]]
          ELSE [row \in DOMAIN s.regions |->
                 [col \in DOMAIN s.regions[row] |->
                   IF row < rows /\ col < cols THEN <<>> ELSE s.regions[row][col]]]
      col_of(i) == ClampUsize(particle_col(s, i), 0, cols - 1)
      row_of(i) == ClampUsize(particle_row(s, i), 0, rows - 1)
      pushed(row, col) ==
        SelectSeq(IdSeq(s.num_particles), LAMBDA i : row_of(i) = row /\ col_of(i) = col)
  IN [s EXCEPT !.region_rows = rows,
               !.region_cols = cols,
               !.regions = [row \in DOMAIN cleared |->
                             [col \in DOMAIN cleared[row] |->
                               cleared[row][col] \o pushed(row, col)]]]

\* `usize as i32`
UsizeAsI32(n) == IF n = UsizeMax THEN -1 ELSE n

\* The ids the loop over OFFSETS_2D of calculate_density / pressure_force visits
\* for particle id, in visiting order, the particle itself included.
scan(s, id) ==
  LET bucket(k) ==
        LET region_row == UsizeAsI32(particle_row(s, id)) + OFFSETS_2D[k][1]
            region_col == UsizeAsI32(particle_col(s, id)) + OFFSETS_2D[k][2]
        IN IF region_row >= 0 /\ region_col >= 0
              /\ region_row < s.region_rows /\ region_col < s.region_cols
             THEN s.regions[region_row][region_col]
             ELSE <<>>
  IN Concat([k \in 1..Len(OFFSETS_2D) |-> bucket(k)])

calculate_density(s, id) ==
  LET position == s.positions[id]
      visited == SelectSeq(scan(s, id), LAMBDA i : i # id)
      influence(i) ==
        LET neighbor_pos == s.positions[i]
            \* .max(0.000000001): the literal is below the quantum 1 / ONE
            distance == Max(Length(VSub(neighbor_pos, position)), F(0, 0))
        IN smoothing_kernel(s, distance)
      density == SumF([k \in 1..Len(visited) |-> influence(visited[k])])
  IN <<density, density>>

\* shared_pressure with the density errors taken as target_density - density.
shared_pressure_target_minus_density(s, density1, density2) ==
  LET density_error1 == Sub(s.target_density, density1)
      density_error2 == Sub(s.target_density, density2)
  IN Div(Mul(Add(density_error1, density_error2), s.pressure_multiplier), F(2, 0))

shared_pressure(s, density1, density2) ==
  LET density_error1 == Sub(density1, s.target_density)
      density_error2 == Sub(density2, s.target_density)
  IN Div(Mul(Add(density_error1, density_error2), s.pressure_multiplier), F(2, 0))

\* What pressure_force(id) adds to `gradient` for the visited particle i;
\* random is the pair of random::<f32>() draws of the coincident case.
\* (In pressure_force, random[i] is the pair drawn when visiting particle i.)
pressure_term(s, id, i, random) ==
  LET position == s.positions[id]
      density == s.densities[id][1]
      offset == VSub(s.positions[i], position)
      distance == Length(offset)
  IN IF Ge(distance, s.smoothing_radius) THEN ZERO
     ELSE IF distance = 0
       THEN VMul(VAdd(Vec2(Sub(random[1], F(0, 500)), Sub(random[2], F(0, 500))),
                      VSub(ZERO, position)),
                 s.particle_size)
     ELSE LET direction == VDiv(offset, distance)
              slope == smoothing_kernel_derivative(s, distance)
              pressure == shared_pressure(s, density, s.densities[i][1])
          IN VDiv(VMul(VMul(direction, slope), pressure), s.densities[i][1])

pressure_force(s, id, random) ==
  LET visited == SelectSeq(scan(s, id), LAMBDA i : i # id)
  IN SumV([k \in 1..Len(visited) |-> pressure_term(s, id, visited[k], random[visited[k]])])

external_forces(s, id) ==
  LET pos == s.positions[id]
      velocity == s.velocities[id]
      input_point_offset == VSub(s.interaction_input_point, pos)
      sqr_distance == Dot(input_point_offset, input_point_offset)
  IN IF s.interaction_input_strength # 0
        /\ Lt(sqr_distance, Mul(s.interaction_input_radius, s.interaction_input_radius))
       THEN LET distance == Sqrt(sqr_distance)
                edge_t == Div(distance, s.interaction_input_radius)
                centre_t == Sub(F(1, 0), edge_t)
                dir_to_centre == VDiv(input_point_offset, distance)
                gravity_weight ==
                  Sub(F(1, 0),
                      Mul(centre_t,
                          Clamp(Div(s.interaction_input_strength, F(10, 0)), 0, F(1, 0))))
                accel0 ==
                  VAdd(VMul(s.gravity, gravity_weight),
                       VMul(VMul(dir_to_centre, centre_t), s.interaction_input_strength))
                accel == VSub(accel0, VMul(velocity, centre_t))
            IN VMul(accel, s.scale)
       ELSE VMul(s.gravity, s.scale)

calculate_pressure(s, id, delta, random) ==
  LET velocity == s.velocities[id]
      pforce == VMul(pressure_force(s, id, random), delta)
      gravity_force == VMul(external_forces(s, id), delta)
  IN IF s.debug.use_inertia
       THEN VAdd(IF s.debug.use_viscosity
                   THEN ClampLengthMax(VAdd(velocity, pforce),
                                       Mul(Mul(s.speed_limit, s.particle_size), delta))
                   ELSE VAdd(velocity, pforce),
                 gravity_force)
       ELSE VAdd(pforce, gravity_force)

\* resolve_collisions that clamps the position and keeps the velocity.
resolve_collisions_keep_velocity(s, id) ==
  LET px == s.positions[id].x
      s1 == IF Gt(Abs(px), s.half_bounds_size.x)
              THEN [s EXCEPT !.positions[id].x = Mul(s.half_bounds_size.x, Signum(px))]
              ELSE s
      py == s1.positions[id].y
  IN IF Gt(Abs(py), s1.half_bounds_size.y)
       THEN [s1 EXCEPT !.positions[id].y = Mul(s1.half_bounds_size.y, Signum(py))]
       ELSE s1

resolve_collisions(s, id) ==
  LET px == s.positions[id].x
      hitx == Gt(Abs(px), s.half_bounds_size.x)
      s1 == IF hitx
              THEN [s EXCEPT !.positions[id].x = Mul(s.half_bounds_size.x, Signum(px)),
                             !.velocities[id].x = Mul(@, Mul(-ONE, s.collision_damping))]
              ELSE s
      py == s1.positions[id].y
      hity == Gt(Abs(py), s1.half_bounds_size.y)
  IN IF hity
       THEN [s1 EXCEPT !.positions[id].y = Mul(s1.half_bounds_size.y, Signum(py)),
                       !.velocities[id].y = Mul(@, Mul(-ONE, s1.collision_damping))]
       ELSE s1

apply_velocity(s, id) ==
  resolve_collisions([s EXCEPT !.positions[id] = VAdd(s.positions[id], s.velocities[id])], id)

RECURSIVE apply_velocities_from(_, _)
apply_velocities_from(s, i) ==
  IF i >= s.num_particles THEN s ELSE apply_velocities_from(apply_velocity(s, i), i + 1)

apply_velocities(s) == apply_velocities_from(s, 0)

on_resize(s, window_width, window_height) ==
  [s EXCEPT !.half_bounds_size =
     VSubS(VDiv(VMul(Vec2(window_width, window_height), s.scale), F(2, 0)),
           Div(s.particle_size, F(2, 0)))]

(***************************************************************************)
(* u32 arithmetic of spatial_hash.rs.  A u32 is the pair <<hi, lo>> of its *)
(* 16-bit halves; the operations wrap modulo 2^32.                         *)
(***************************************************************************)
HASH_K1 == 15823
HASH_K2 == 9737333

Half == 2 ^ 16

U32(n) == <<n \div Half, n % Half>>

\* `i as u32` of an i32: two's complement.
I32AsU32(c) ==
  IF c >= 0 THEN U32(c)
  ELSE <<(Half - 1) - ((-c - 1) \div Half), (Half - 1) - ((-c - 1) % Half)>>

\* The full product of two 16-bit halves.
MulHalves(x, y) ==
  LET p1 == x * (y \div 256)
      p0 == x * (y % 256)
      lo == (p1 % 256) * 256 + (p0 % Half)
  IN <<(p1 \div 256) + (p0 \div Half) + (lo \div Half), lo % Half>>

WrappingMul(a, b) ==
  LET low == MulHalves(a[2], b[2])
      cross == MulHalves(a[1], b[2])[2] + MulHalves(a[2], b[1])[2]
  IN <<(low[1] + cross) % Half, low[2]>>

WrappingAdd(a, b) ==
  LET lo == a[2] + b[2]
  IN <<(a[1] + b[1] + lo \div Half) % Half, lo % Half>>

\* hash % table_size for a table_size below 2^15
RemU32(a, n) == ((a[1] % n) * (Half % n) + a[2]) % n

get_cell_2d(position, smoothing_radius) ==
  <<AsI32(Floor(Div(position.x, smoothing_radius))),
    AsI32(Floor(Div(position.y, smoothing_radius)))>>

hash_cell_2d(cell) ==
  LET a == WrappingMul(I32AsU32(cell[1]), U32(HASH_K1))
      b == WrappingMul(I32AsU32(cell[2]), U32(HASH_K2))
  IN WrappingAdd(a, b)

key_from_hash(hash, table_size) == RemU32(hash, table_size)

\* a * b does not fit in 32 bits
MulOverflows(a, b) ==
  LET low == MulHalves(a[2], b[2])
      c1 == MulHalves(a[1], b[2])
      c2 == MulHalves(a[2], b[1])
  IN \/ a[1] > 0 /\ b[1] > 0
     \/ c1[1] > 0
     \/ c2[1] > 0
     \/ low[1] + c1[2] + c2[2] >= Half

\* a + b does not fit in 32 bits
AddOverflows(a, b) == a[1] + b[1] + (a[2] + b[2]) \div Half >= Half

\* Whether hash_cell_2d panics: its `*` and `+` are the plain u32 operators,
\* which panic on overflow in a build with overflow checks and wrap in a build
\* without them.
hash_cell_2d_traps(cell) ==
  LET x == I32AsU32(cell[1])
      y == I32AsU32(cell[2])
  IN IF \/ MulOverflows(x, U32(HASH_K1))
        \/ MulOverflows(y, U32(HASH_K2))
        \/ AddOverflows(WrappingMul(x, U32(HASH_K1)), WrappingMul(y, U32(HASH_K2)))
     THEN { TRUE, FALSE }
     ELSE { FALSE }

(***************************************************************************)
(* The hash grid (sim_sfs_impl.rs)                                         *)
(***************************************************************************)
sfs_update_spatial_hash(s) ==
  LET triple(id) ==
        LET cell == get_cell_2d(s.predicted_positions[id], s.smoothing_radius)
            hash == hash_cell_2d(cell)
            key == key_from_hash(hash, s.num_particles)
        IN <<id, hash, key>>
  IN [s EXCEPT !.spatial_offsets = [id \in 0..s.num_particles - 1 |-> s.num_particles],
               !.spatial_indices = [id \in 0..s.num_particles - 1 |-> triple(id)]]

RECURSIVE sfs_density_walk(_, _, _, _)
\* The neighbour_index values the while loop of sfs_calculate_density reaches past
\* its key and hash tests, from curr_index on.
sfs_density_walk(s, hash, key, curr_index) ==
  IF ~(curr_index < s.num_particles) THEN <<>>
  ELSE LET index_data == s.spatial_indices[curr_index]
       IN IF index_data[3] # key THEN <<>>
          ELSE IF index_data[2] # hash THEN sfs_density_walk(s, hash, key, curr_index + 1)
          ELSE <<index_data[1]>> \o sfs_density_walk(s, hash, key, curr_index + 1)

\* The neighbours sfs_calculate_density(pos) reaches within the radius, in order.
sfs_density_neighbours(s, pos) ==
  LET origin_cell == get_cell_2d(pos, s.smoothing_radius)
      sqr_radius == Mul(s.smoothing_radius, s.smoothing_radius)
      in_radius(neighbour_index) ==
        LET offset_to_neighbour == VSub(s.predicted_positions[neighbour_index], pos)
        IN ~Gt(Dot(offset_to_neighbour, offset_to_neighbour), sqr_radius)
      bin(k) ==
        LET cell == <<origin_cell[1] + OFFSETS_2D[k][1], origin_cell[2] + OFFSETS_2D[k][2]>>
            hash == hash_cell_2d(cell)
            key == key_from_hash(hash, s.num_particles)
        IN SelectSeq(sfs_density_walk(s, hash, key, s.spatial_offsets[key]), in_radius)
  IN Concat([k \in 1..Len(OFFSETS_2D) |-> bin(k)])

sfs_calculate_density(s, pos) ==
  LET reached == sfs_density_neighbours(s, pos)
      distance(neighbour_index) ==
        LET offset_to_neighbour == VSub(s.predicted_positions[neighbour_index], pos)
        IN Sqrt(Dot(offset_to_neighbour, offset_to_neighbour))
  IN <<SumF([k \in 1..Len(reached) |-> sfs_density_kernel(s, distance(reached[k]))]),
       SumF([k \in 1..Len(reached) |-> sfs_near_density_kernel(s, distance(reached[k]))])>>

sfs_pressure_from_density(s, density) ==
  Mul(Sub(density, s.target_density), s.pressure_multiplier)

sfs_near_pressure_from_density(s, near_density) ==
  Mul(s.near_pressure_multiplier, near_density)

RECURSIVE sfs_force_walk(_, _, _, _)
\* The neighbour_index values the while loop of sfs_calculate_pressure_force (and of
\* sfs_calculate_viscosity) reaches past its id and key tests, from curr_index on.
sfs_force_walk(s, id, key, curr_index) ==
  IF ~(curr_index < s.num_particles) THEN <<>>
  ELSE IF curr_index = id THEN sfs_force_walk(s, id, key, curr_index + 1)
  ELSE IF s.spatial_keys[curr_index] # key THEN <<>>
  ELSE <<curr_index>> \o sfs_force_walk(s, id, key, curr_index + 1)

sfs_force_neighbours(s, id) ==
  LET pos == s.predicted_positions[id]
      origin_cell == get_cell_2d(pos, s.smoothing_radius)
      in_radius(neighbour_index) ==
        ~Gt(Length(VSub(s.predicted_positions[neighbour_index], pos)), s.smoothing_radius)
      bin(k) ==
        LET hash == hash_cell_2d(<<origin_cell[1] + OFFSETS_2D[k][1],
                                   origin_cell[2] + OFFSETS_2D[k][2]>>)
            key == key_from_hash(hash, s.num_particles)
        IN SelectSeq(sfs_force_walk(s, id, key, s.spatial_offsets[key]), in_radius)
  IN Concat([k \in 1..Len(OFFSETS_2D) |-> bin(k)])

\* The two terms sfs_calculate_pressure_force(id) adds for neighbour_index.
sfs_pressure_terms(s, id, neighbour_index) ==
  LET density == s.densities[id][1]
      density_near == s.densities[id][2]
      pressure == sfs_pressure_from_density(s, density)
      near_pressure == sfs_near_pressure_from_density(s, density_near)
      pos == s.predicted_positions[id]
      offset_to_neighbour == VSub(s.predicted_positions[neighbour_index], pos)
      distance == Length(offset_to_neighbour)
      dir_to_neighbour ==
        IF Gt(distance, 0) THEN VDiv(offset_to_neighbour, distance) ELSE Vec2(0, F(1, 0))
      neighbour_density == s.densities[neighbour_index][1]
      neighbour_near_density == s.densities[neighbour_index][2]
      neighbour_pressure == sfs_pressure_from_density(s, neighbour_density)
      neighbour_near_pressure == sfs_near_pressure_from_density(s, neighbour_near_density)
      shared == Mul(Add(pressure, neighbour_pressure), F(0, 500))
      shared_near == Mul(Add(near_pressure, neighbour_near_pressure), F(0, 500))
  IN <<VDiv(VMul(VMul(dir_to_neighbour, sfs_density_derivative(s, distance)), shared),
            neighbour_density),
       VDiv(VMul(VMul(dir_to_neighbour, sfs_near_density_derivative(s, distance)), shared_near),
            neighbour_near_density)>>

sfs_calculate_pressure_force(s, id) ==
  LET reached == sfs_force_neighbours(s, id)
      terms == Concat([k \in 1..Len(reached) |-> sfs_pressure_terms(s, id, reached[k])])
  IN VDiv(SumV(terms), s.densities[id][1])

\* The neighbour_index values sfs_calculate_viscosity(id) adds a term for: the walk
\* of the nine cells, past the test `distance > smoothing_radius`.
sfs_viscosity_neighbours(s, id) ==
  LET pos == s.predicted_positions[id]
      origin_cell == get_cell_2d(pos, s.smoothing_radius)
      in_radius(neighbour_index) ==
        ~Gt(Length(VSub(s.predicted_positions[neighbour_index], pos)), s.smoothing_radius)
      bin(k) ==
        LET hash == hash_cell_2d(<<origin_cell[1] + OFFSETS_2D[k][1],
                                   origin_cell[2] + OFFSETS_2D[k][2]>>)
            key == key_from_hash(hash, s.num_particles)
        IN SelectSeq(sfs_force_walk(s, id, key, s.spatial_offsets[key]), in_radius)
  IN Concat([k \in 1..Len(OFFSETS_2D) |-> bin(k)])

\* sfs_calculate_viscosity(&mut self, id, delta_time): velocities[id] is updated in
\* place, from the velocities the other particles have at the time of the call.
sfs_calculate_viscosity(s, id, delta_time) ==
  LET pos == s.predicted_positions[id]
      velocity == s.velocities[id]
      reached == sfs_viscosity_neighbours(s, id)
      term(neighbour_index) ==
        LET distance == Length(VSub(s.predicted_positions[neighbour_index], pos))
        IN VMul(VSub(s.velocities[neighbour_index], velocity),
                sfs_viscosity_kernel(s, distance))
      viscosity_force == SumV([k \in 1..Len(reached) |-> term(reached[k])])
  IN [s EXCEPT !.velocities[id] =
        VAdd(@, VMul(VMul(viscosity_force, s.viscosity_strength), delta_time))]

(***************************************************************************)
(* The phases of Simulation::update_particles and end_frame (sim_impl.rs)  *)
(***************************************************************************)
\* frames_to_advance that never reports fewer than one frame.
frames_to_advance_at_least_one(s) ==
  IF s.debug.frames_to_show > 0 THEN s.debug.frames_to_show ELSE 1

frames_to_advance(s) == s.debug.frames_to_show

\* calculate_densities logs in the frame log_frame: .reduce(f32::min).unwrap() is
\* the unwrap of None when densities is empty.
log_densities_panics(s) ==
  s.debug.log_frame = s.debug.current_frame /\ s.num_particles = 0

\* The outcomes of `current_frame += 1` at u32::MAX: a build with overflow checks
\* (the debug profile) traps, a build without them wraps.  TRUE is the trap.
current_frame_traps(s) ==
  IF s.debug.current_frame = U32_MAX THEN BOOLEAN ELSE {FALSE}


\* The parallel map writes every density from the state the phase started in.
calculate_densities(s) ==
  [s EXCEPT !.densities =
     IF s.debug.use_sfs
       THEN [i \in 0..s.num_particles - 1 |-> sfs_calculate_density(s, s.positions[i])]
       ELSE [i \in 0..s.num_particles - 1 |-> calculate_density(s, i)]]

\* random[id][i] is the pair of random::<f32>() draws pressure_force(id) makes
\* when it visits a particle i at distance 0.
\* calculate_pressures collecting the velocities in the reverse order of the ids.
calculate_pressures_reversed(s, delta, random) ==
  LET n == s.num_particles
      velocities == [i \in 0..n - 1 |->
                      calculate_pressure(s, n - 1 - i, delta, random[n - 1 - i])]
  IN [s EXCEPT !.velocities = velocities,
               !.predicted_positions =
                 [i \in 0..n - 1 |->
                   VAdd(s.positions[i], VMul(velocities[i], s.prediction_factor))]]

calculate_pressures(s, delta, random) ==
  LET velocities == [i \in 0..s.num_particles - 1 |-> calculate_pressure(s, i, delta, random[i])]
  IN [s EXCEPT !.velocities = velocities,
               !.predicted_positions =
                 [i \in 0..s.num_particles - 1 |->
                   VAdd(s.positions[i], VMul(velocities[i], s.prediction_factor))]]

update_index(s) == IF s.debug.use_sfs THEN sfs_update_spatial_hash(s) ELSE update_regions(s)

\* end_frame without the decrement of frames_to_show.
end_frame_no_decrement(s) ==
  [s EXCEPT !.debug.current_frame = (@ + 1) % (U32_MAX + 1)]

end_frame(s) ==
  [s EXCEPT !.debug.current_frame = (@ + 1) % (U32_MAX + 1),
            !.debug.frames_to_show = IF @ > 0 THEN @ - 1 ELSE @]

(***************************************************************************)
(* sim_settings.rs                                                         *)
(***************************************************************************)
reset(s, random) == place_particles(s, random)

set_frames_to_show(s, val) == [s EXCEPT !.debug.frames_to_show = val]

toggle_smoothing_radius(s) == [s EXCEPT !.debug.show_smoothing_radius = ~@]
toggle_region_grid(s) == [s EXCEPT !.debug.show_region_grid = ~@]
toggle_fps(s) == [s EXCEPT !.debug.show_fps = ~@]
toggle_heatmap(s) == [s EXCEPT !.debug.use_heatmap = ~@]
toggle_inertia(s) == [s EXCEPT !.debug.use_inertia = ~@]
toggle_viscosity(s) == [s EXCEPT !.debug.use_viscosity = ~@]

reset_inertia(s) == [s EXCEPT !.velocities = [i \in 0..s.num_particles - 1 |-> ZERO]]

log_next_frame(s) == [s EXCEPT !.debug.log_frame = (s.debug.current_frame + 1) % (U32_MAX + 1)]

\* adj_smoothing_radius without the lower clamp max(h + increment, |increment|).
adj_smoothing_radius_no_clamp(s, increment) ==
  LET smoothing_radius == Add(s.smoothing_radius, increment)
  IN [s EXCEPT !.smoothing_radius = smoothing_radius,
               !.smoothing_scaling_factor = Div(F(6, 0), Mul(PI, Powf(smoothing_radius, 4))),
               !.smoothing_derivative_scaling_factor =
                 Div(Mul(PI, Powf(smoothing_radius, 4)), F(6, 0))]

adj_smoothing_radius(s, increment) ==
  LET smoothing_radius == Max(Add(s.smoothing_radius, increment), Abs(increment))
  IN [s EXCEPT !.smoothing_radius = smoothing_radius,
               !.smoothing_scaling_factor = Div(F(6, 0), Mul(PI, Powf(smoothing_radius, 4))),
               !.smoothing_derivative_scaling_factor =
                 Div(Mul(PI, Powf(smoothing_radius, 4)), F(6, 0))]

\* adj_gravity without .min(0.0).
adj_gravity_unclamped(s, increment) == [s EXCEPT !.gravity.y = Add(s.gravity.y, increment)]

adj_gravity(s, increment) == [s EXCEPT !.gravity.y = Min(Add(s.gravity.y, increment), 0)]

(***************************************************************************)
(* keyboard.rs and main.rs: what a command or a system does to the         *)
(* Simulation                                                              *)
(***************************************************************************)
\* pause with the two branches exchanged.
pause_inverted(s) ==
  IF frames_to_advance(s) = 0 THEN set_frames_to_show(s, 0) ELSE set_frames_to_show(s, U32_MAX)

pause(s) ==
  IF frames_to_advance(s) = 0 THEN set_frames_to_show(s, U32_MAX) ELSE set_frames_to_show(s, 0)

key_adj_gravity(s, shift) ==
  IF shift THEN adj_gravity(s, Neg(F(0, 500))) ELSE adj_gravity(s, F(0, 500))

key_toggle_inertia(s, shift) == IF shift THEN toggle_inertia(s) ELSE reset_inertia(s)

\* handle_mouse_clicks without the reset of the strength at the start of the pass.
handle_mouse_clicks_no_reset(s, left_click, right_click, cursor) ==
  IF ~left_click /\ ~right_click THEN s
  ELSE IF ~cursor.some THEN s
  ELSE [s EXCEPT !.interaction_input_strength =
                   IF left_click THEN Neg(F(200, 0)) ELSE F(200, 0),
                 !.interaction_input_point = cursor.point]

\* handle_mouse_clicks: cursor.some says whether the window has a cursor position
\* that maps to a world point, and cursor.point is that point.
handle_mouse_clicks(s, left_click, right_click, cursor) ==
  LET s0 == [s EXCEPT !.interaction_input_strength = 0]
  IN IF ~left_click /\ ~right_click THEN s0
     ELSE IF ~cursor.some THEN s0
     ELSE [s0 EXCEPT !.interaction_input_strength =
                       IF left_click THEN Neg(F(200, 0)) ELSE F(200, 0),
                     !.interaction_input_point = cursor.point]

(***************************************************************************)
(* The state machine                                                       *)
(*   sim    the Simulation component                                       *)
(*   pc     the position inside the update_particles system of main.rs:    *)
(*          "idle" between two systems, then "index", "densities",         *)
(*          "pressures", "frame" after the phase of that name has run      *)
(*   delta  time.delta_secs() of the tick in progress                      *)
(*   last   the operation that ran last, with its inputs (history)         *)
(*   ticks, cmds   how many ticks and commands have run (history)          *)
(*   step   frame stepping since the last frames command (history)         *)
(*   limit  how many ticks and commands the run explores (never changes)   *)
(***************************************************************************)
VARIABLES sim, pc, delta, last, ticks, cmds, step, limit

vars == <<sim, pc, delta, last, ticks, cmds, step, limit>>

\* Bounds of the exploration.
MaxTicks == 2
MaxCommands == 2
\* The same for the runs that take frame commands only, and radius commands only.
StepTicks == 4
StepCommands == 2
RadiusTicks == 2
RadiusCommands == 3

\* The inputs the model draws.
ArgsChoices ==
  [ num : {2},
    smoothing_radius : {F(0, 500)},
    gravity : {F(1, 500)},
    pressure_multiplier : {1},
    collision_damping : {F(0, 500)},
    interaction_input_radius : {30},
    speed_limit : {F(30, 0)} ]

StartWindows == { <<F(2, 0), F(2, 0)>> }
ResizeWindows == { <<0, 0>>, <<F(30, 0), F(30, 0)>> }
Deltas == { F(0, 500) }
\* The pairs of random::<f32>() draws of pressure_force for a coincident neighbour.
RandomPairs == { <<0, F(0, 999)>>, <<F(0, 999), F(0, 250)>> }
\* The pairs of draws place_particles makes for the particles 0, 1, 2, ...: each
\* pattern gives the pair of particle i at index i + 1 (cyclically).
PlacementPatterns ==
  { << <<0, 0>>, <<F(0, 999), F(0, 999)>>, <<F(0, 999), 0>> >>,
    << <<F(0, 250), F(0, 500)>>, <<F(0, 750), F(0, 500)>>, <<F(0, 500), F(0, 999)>> >>,
    << <<F(0, 500), F(0, 500)>>, <<F(0, 500), F(0, 500)>>, <<0, F(0, 500)>> >> }
RadiusIncrements == { F(0, 10), Neg(F(0, 10)), F(0, 500), Neg(F(0, 500)) }
FrameCounts == { 0, 1, 2, U32_MAX }
Cursors ==
  { [some |-> FALSE, point |-> ZERO],
    [some |-> TRUE, point |-> Vec2(F(0, 24), F(0, 24))] }

Ids(s) == 0..s.num_particles - 1

\* The draws of place_particles: one pair per particle.
PlacementDraws(s) == { [i \in Ids(s) |-> pat[(i % Len(pat)) + 1]] : pat \in PlacementPatterns }

\* The draws of calculate_pressures: pressure_force draws only for a coincident pair.
HasCoincident(s) ==
  \E i \in Ids(s) : \E j \in Ids(s) : i # j /\ s.positions[i] = s.positions[j]
ForceDraws(s) ==
  IF HasCoincident(s)
    THEN { [i \in Ids(s) |-> [j \in Ids(s) |-> r]] : r \in RandomPairs }
    ELSE { [i \in Ids(s) |-> [j \in Ids(s) |-> <<0, 0>>]] }

\* step.n: the argument of the last set_frames_to_show (-1: none since the last pause),
\* step.ticks, step.advanced, step.applied: the ticks completed since then, and how
\* many of them ran calculate_pressures and apply_velocities,
\* step.free_run: frames_to_show was last set to u32::MAX (or never set).
NoStep == [n |-> -1, ticks |-> 0, advanced |-> 0, applied |-> 0, free_run |-> FALSE]

\* The state after setup: Simulation::new and place_particles.
Start(max_ticks, max_commands) ==
  /\ \E args \in ArgsChoices : \E win \in StartWindows :
       \E random \in PlacementDraws(new(args, win[1], win[2])) :
         sim = place_particles(new(args, win[1], win[2]), random)
  /\ pc = "idle"
  /\ delta = 0
  /\ last = [op |-> "new"]
  /\ ticks = 0
  /\ cmds = 0
  /\ step = [NoStep EXCEPT !.free_run = TRUE]
  /\ limit = [ticks |-> max_ticks, cmds |-> max_commands]

Init == Start(MaxTicks, MaxCommands)

(***************************************************************************)
(* The update_particles system, phase by phase.                            *)
(***************************************************************************)
UpdateIndex ==
  /\ pc = "idle"
  /\ ticks < limit.ticks
  /\ \E d \in Deltas : delta' = d
  /\ sim' = update_index(sim)
  /\ pc' = "index"
  /\ last' = [op |-> "update_index"]
  /\ UNCHANGED <<ticks, cmds, step, limit>>

CalculateDensities ==
  /\ pc = "index"
  /\ sim' = calculate_densities(sim)
  /\ pc' = IF log_densities_panics(sim) THEN "panic"
           ELSE IF frames_to_advance(sim) > 0 THEN "densities" ELSE "frame"
  /\ last' = [op |-> "calculate_densities"]
  /\ UNCHANGED <<delta, ticks, cmds, step, limit>>

CalculatePressures ==
  /\ pc = "densities"
  /\ \E random \in ForceDraws(sim) : sim' = calculate_pressures(sim, delta, random)
  /\ pc' = "pressures"
  /\ last' = [op |-> "calculate_pressures"]
  /\ step' = [step EXCEPT !.advanced = @ + 1]
  /\ UNCHANGED <<delta, ticks, cmds, limit>>

ApplyVelocities ==
  /\ pc = "pressures"
  /\ sim' = apply_velocities(sim)
  /\ pc' = "frame"
  /\ last' = [op |-> "apply_velocities"]
  /\ step' = [step EXCEPT !.applied = @ + 1]
  /\ UNCHANGED <<delta, ticks, cmds, limit>>

EndFrame ==
  /\ pc = "frame"
  /\ \E trap \in current_frame_traps(sim) :
       IF trap
         THEN pc' = "panic" /\ UNCHANGED <<sim, ticks, step>>
         ELSE /\ sim' = end_frame(sim)
              /\ pc' = "idle"
              /\ ticks' = ticks + 1
              /\ step' = [step EXCEPT !.ticks = @ + 1]
  /\ last' = [op |-> "end_frame"]
  /\ UNCHANGED <<delta, cmds, limit>>

(***************************************************************************)
(* The other systems and the keyboard commands run between two ticks.      *)
(***************************************************************************)
\* A command that does not wait for exclusive access to the Simulation component:
\* it runs whatever the position of update_particles.
Command_at_any_position(op, s) ==
  /\ cmds < limit.cmds
  /\ sim' = s
  /\ last' = op
  /\ cmds' = cmds + 1
  /\ UNCHANGED <<pc, delta, ticks, limit>>

Command(op, s) ==
  /\ pc = "idle"
  /\ cmds < limit.cmds
  /\ sim' = s
  /\ last' = op
  /\ cmds' = cmds + 1
  /\ UNCHANGED <<pc, delta, ticks, limit>>

KeyPause ==
  /\ Command([op |-> "pause", before |-> frames_to_advance(sim), step |-> step], pause(sim))
  /\ step' = [NoStep EXCEPT !.free_run = (frames_to_advance(sim) = 0)]

SetFramesToShow ==
  \E n \in FrameCounts :
    /\ Command([op |-> "set_frames_to_show", val |-> n], set_frames_to_show(sim, n))
    /\ step' = [NoStep EXCEPT !.n = n, !.free_run = (n = U32_MAX)]

KeyToggleSmoothingRadius ==
  Command([op |-> "toggle_smoothing_radius"], toggle_smoothing_radius(sim)) /\ UNCHANGED step

KeyToggleRegionGrid ==
  Command([op |-> "toggle_region_grid"], toggle_region_grid(sim)) /\ UNCHANGED step

KeyToggleHeatmap ==
  Command([op |-> "toggle_heatmap"], toggle_heatmap(sim)) /\ UNCHANGED step

KeyToggleInertia ==
  \E shift \in BOOLEAN :
    Command([op |-> "toggle_inertia", shift |-> shift], key_toggle_inertia(sim, shift))
    /\ UNCHANGED step

KeyToggleViscosity ==
  Command([op |-> "toggle_viscosity"], toggle_viscosity(sim)) /\ UNCHANGED step

KeyLogNextFrame ==
  Command([op |-> "log_next_frame"], log_next_frame(sim)) /\ UNCHANGED step

KeyReset ==
  \E random \in PlacementDraws(sim) :
    Command([op |-> "reset"], reset(sim, random)) /\ UNCHANGED step

KeyAdjGravity ==
  \E shift \in BOOLEAN :
    Command([op |-> "adj_gravity", shift |-> shift], key_adj_gravity(sim, shift))
    /\ UNCHANGED step

\* The keyboard passes 0.01 and -0.01; the method is public and takes any increment.
AdjSmoothingRadius ==
  \E increment \in RadiusIncrements :
    Command([op |-> "adj_smoothing_radius", increment |-> increment,
             before |-> sim.smoothing_radius],
            adj_smoothing_radius(sim, increment))
    /\ UNCHANGED step

HandleMouseClicks ==
  \E left_click \in BOOLEAN : \E right_click \in BOOLEAN : \E cursor \in Cursors :
    Command([op |-> "handle_mouse_clicks", pressed |-> left_click \/ right_click,
             mapped |-> cursor.some],
            handle_mouse_clicks(sim, left_click, right_click, cursor))
    /\ UNCHANGED step

\* The keyboard passes 0.5 and -0.5; the method is public and takes any increment.
GravityIncrements ==
  { F(0, 500), Neg(F(0, 500)), F(100, 0), Neg(F(100, 0)), PInf, NInf, NaN }

AdjGravity ==
  \E increment \in GravityIncrements :
    Command([op |-> "adj_gravity", increment |-> increment, before |-> sim.gravity],
            adj_gravity(sim, increment))
    /\ UNCHANGED step

OnResize ==
  \E win \in ResizeWindows :
    Command([op |-> "on_resize"], on_resize(sim, win[1], win[2])) /\ UNCHANGED step

Next ==
  \/ UpdateIndex
  \/ CalculateDensities
  \/ CalculatePressures
  \/ ApplyVelocities
  \/ EndFrame
  \/ KeyPause
  \/ SetFramesToShow
  \/ KeyToggleSmoothingRadius
  \/ KeyToggleRegionGrid
  \/ KeyToggleHeatmap
  \/ KeyToggleInertia
  \/ KeyToggleViscosity
  \/ KeyLogNextFrame
  \/ KeyReset
  \/ KeyAdjGravity
  \/ AdjSmoothingRadius
  \/ HandleMouseClicks
  \/ OnResize

Spec == Init /\ [][Next]_vars

\* The ticks with the frame commands only: frame stepping with no other command.
NextStep ==
  \/ UpdateIndex
  \/ CalculateDensities
  \/ CalculatePressures
  \/ ApplyVelocities
  \/ EndFrame
  \/ KeyPause
  \/ SetFramesToShow

InitStep == Start(StepTicks, StepCommands)

SpecStep == InitStep /\ [][NextStep]_vars

\* The ticks with the mouse and adj_gravity only: any sequence of the two.
InputTicks == 1
InputCommands == 3

NextInput ==
  \/ UpdateIndex
  \/ CalculateDensities
  \/ CalculatePressures
  \/ ApplyVelocities
  \/ EndFrame
  \/ HandleMouseClicks
  \/ AdjGravity

InitInput == Start(InputTicks, InputCommands)

SpecInput == InitInput /\ [][NextInput]_vars

\* The ticks with adj_smoothing_radius only: any sequence of adjustments.
NextRadius ==
  \/ UpdateIndex
  \/ CalculateDensities
  \/ CalculatePressures
  \/ ApplyVelocities
  \/ EndFrame
  \/ AdjSmoothingRadius

InitRadius == Start(RadiusTicks, RadiusCommands)

SpecRadius == InitRadius /\ [][NextRadius]_vars

(***************************************************************************)
(* The tick from a broad set of particle configurations.  The initial      *)
(* states are those of a run new(); on_resize(); reset(): three particles  *)
(* in a box several cells wide, each placed by its own pair of draws.      *)
(***************************************************************************)
ArgsFn ==
  [ num |-> 3, smoothing_radius |-> F(0, 500), gravity |-> F(1, 500),
    pressure_multiplier |-> 1, collision_damping |-> F(0, 500),
    interaction_input_radius |-> 30, speed_limit |-> F(30, 0) ]

WindowFn == <<F(30, 0), F(30, 0)>>

GridValues == { 0, F(0, 150), F(0, 400), F(0, 999) }

StartFn == on_resize(new(ArgsFn, F(2, 0), F(2, 0)), WindowFn[1], WindowFn[2])

InitFn ==
  /\ \E random \in [Ids(StartFn) -> GridValues \X GridValues] :
       sim = place_particles(StartFn, random)
  /\ pc = "idle"
  /\ delta = 0
  /\ last = [op |-> "reset"]
  /\ ticks = 0
  /\ cmds = 0
  /\ step = [NoStep EXCEPT !.free_run = TRUE]
  /\ limit = [ticks |-> MaxTicks, cmds |-> 0]

NextFn ==
  \/ UpdateIndex
  \/ CalculateDensities
  \/ CalculatePressures
  \/ ApplyVelocities
  \/ EndFrame

SpecFn == InitFn /\ [][NextFn]_vars

\* The same configurations in a build that sets debug.use_sfs (the flag has no
\* setter): the tick then builds the hash grid and computes the sfs densities.
InitSfs ==
  /\ \E random \in [Ids(StartFn) -> GridValues \X GridValues] :
       sim = [place_particles(StartFn, random) EXCEPT !.debug.use_sfs = TRUE]
  /\ pc = "idle"
  /\ delta = 0
  /\ last = [op |-> "reset"]
  /\ ticks = 0
  /\ cmds = 0
  /\ step = [NoStep EXCEPT !.free_run = TRUE]
  /\ limit = [ticks |-> MaxTicks, cmds |-> 0]

SpecSfs == InitSfs /\ [][NextFn]_vars

\* The tick for every particle count of --num from 0 on, for as many frames as
\* current_frame has values.
CountChoices == { 0, 1, 2 }

InitCount ==
  /\ \E args \in ArgsChoices : \E num \in CountChoices : \E win \in StartWindows :
       LET created == new([args EXCEPT !.num = num], win[1], win[2])
       IN \E random \in PlacementDraws(created) : sim = place_particles(created, random)
  /\ pc = "idle"
  /\ delta = 0
  /\ last = [op |-> "new"]
  /\ ticks = 0
  /\ cmds = 0
  /\ step = [NoStep EXCEPT !.free_run = TRUE]
  /\ limit = [ticks |-> U32_MAX + 1, cmds |-> 0]

SpecCount == InitCount /\ [][NextFn]_vars

\* Every command and the tick, with a budget of its own.
ArrayTicks == 2
ArrayCommands == 1

InitArrays == Start(ArrayTicks, ArrayCommands)

SpecArrays == InitArrays /\ [][Next]_vars

(***************************************************************************)
(* The tick from configurations placed directly into the public fields     *)
(* positions and velocities: one particle around the walls with a          *)
(* velocity of its own, or two particles half a smoothing radius apart, at *)
(* rest, without gravity and far from the walls.                           *)
(***************************************************************************)
ArgsOne ==
  [ num |-> 1, smoothing_radius |-> F(0, 500), gravity |-> F(1, 500),
    pressure_multiplier |-> 1, collision_damping |-> F(0, 500),
    interaction_input_radius |-> 30, speed_limit |-> F(30, 0) ]

StartOne == on_resize(new(ArgsOne, F(2, 0), F(2, 0)), F(30, 0), F(30, 0))

\* Coordinates inside, just outside and far outside the walls at -bound and bound.
AroundWalls(bound) ==
  { Neg(Add(bound, F(0, 300))), Neg(Add(bound, F(0, 10))), 0,
    Add(bound, F(0, 10)), Add(bound, F(0, 300)) }

OneVelocities == { Neg(F(2, 0)), Neg(F(0, 100)), 0, F(0, 100), F(2, 0) }

ArgsPair ==
  [ num |-> 2, smoothing_radius |-> F(0, 500), gravity |-> 0,
    pressure_multiplier |-> 50, collision_damping |-> F(0, 500),
    interaction_input_radius |-> 30, speed_limit |-> F(30, 0) ]

\* The window of new and the window of on_resize: the first pair gives a
\* target_density below the density two particles at distance h / 2 give each other,
\* the second one above it.
PairWindows == { <<F(0, 100), F(4, 0)>>, <<F(2, 0), F(80, 0)>> }

StartPair(w) == on_resize(new(ArgsPair, w[1], w[1]), w[2], w[2])

PairCentres == { ZERO, Vec2(F(0, 400), Neg(F(0, 300))) }

\* Offsets of length h / 2 = 0.25.
PairOffsets ==
  { Vec2(F(0, 250), 0), Vec2(0, Neg(F(0, 250))), Vec2(F(0, 150), F(0, 200)),
    Vec2(Neg(F(0, 200)), F(0, 150)) }

InitInject ==
  /\ \/ \E x \in AroundWalls(StartOne.half_bounds_size.x) :
        \E y \in AroundWalls(StartOne.half_bounds_size.y) :
        \E vx \in OneVelocities : \E vy \in OneVelocities :
          sim = [StartOne EXCEPT !.positions = [i \in {0} |-> Vec2(x, y)],
                                 !.predicted_positions = [i \in {0} |-> Vec2(x, y)],
                                 !.velocities = [i \in {0} |-> Vec2(vx, vy)]]
     \/ \E w \in PairWindows : \E c \in PairCentres : \E o \in PairOffsets :
        \E viscosity \in BOOLEAN : \E inertia \in BOOLEAN :
          sim = [StartPair(w) EXCEPT !.positions = (0 :> c @@ 1 :> VAdd(c, o)),
                                     !.predicted_positions = (0 :> c @@ 1 :> VAdd(c, o)),
                                     !.debug.use_viscosity = viscosity,
                                     !.debug.use_inertia = inertia]
  /\ pc = "idle"
  /\ delta = 0
  /\ last = [op |-> "inject"]
  /\ ticks = 0
  /\ cmds = 0
  /\ step = [NoStep EXCEPT !.free_run = TRUE]
  /\ limit = [ticks |-> MaxTicks, cmds |-> 0]

SpecInject == InitInject /\ [][NextFn]_vars

(***************************************************************************)
(* The tick of two particles in a large box, with one on_resize between    *)
(* two ticks: the window shrinks and leaves the particles inside the box,  *)
(* just outside it or more than a cell outside it.                         *)
(***************************************************************************)
ShrinkCentres ==
  { ZERO, Vec2(F(1, 900), F(1, 900)), Vec2(F(2, 400), F(2, 200)),
    Vec2(Neg(F(2, 400)), Neg(F(2, 200))) }

InitShrink ==
  /\ \E c \in ShrinkCentres : \E o \in PairOffsets :
       sim = [StartPair(<<F(2, 0), F(80, 0)>>) EXCEPT
                !.positions = (0 :> c @@ 1 :> VAdd(c, o)),
                !.predicted_positions = (0 :> c @@ 1 :> VAdd(c, o))]
  /\ pc = "idle"
  /\ delta = 0
  /\ last = [op |-> "inject"]
  /\ ticks = 0
  /\ cmds = 0
  /\ step = [NoStep EXCEPT !.free_run = TRUE]
  /\ limit = [ticks |-> MaxTicks, cmds |-> 1]

NextShrink ==
  \/ UpdateIndex
  \/ CalculateDensities
  \/ CalculatePressures
  \/ ApplyVelocities
  \/ EndFrame
  \/ OnResize

SpecShrink == InitShrink /\ [][NextShrink]_vars

(***************************************************************************)
(* The tick of one particle while an interaction input is active, the      *)
(* input point on the particle or away from it.                            *)
(***************************************************************************)
InitPoint ==
  /\ \E x \in AroundWalls(StartOne.half_bounds_size.x) :
     \E y \in AroundWalls(StartOne.half_bounds_size.y) :
     \E strength \in { Neg(F(200, 0)), F(200, 0) } :
     \E point \in { Vec2(x, y), Vec2(Add(x, F(0, 100)), y) } :
       sim = [StartOne EXCEPT !.positions = [i \in {0} |-> Vec2(x, y)],
                              !.predicted_positions = [i \in {0} |-> Vec2(x, y)],
                              !.interaction_input_strength = strength,
                              !.interaction_input_point = point]
  /\ pc = "idle"
  /\ delta = 0
  /\ last = [op |-> "inject"]
  /\ ticks = 0
  /\ cmds = 0
  /\ step = [NoStep EXCEPT !.free_run = TRUE]
  /\ limit = [ticks |-> MaxTicks, cmds |-> 0]

SpecPoint == InitPoint /\ [][NextFn]_vars

(***************************************************************************)
(* hash_cell_2d and key_from_hash applied to one cell and one table size,  *)
(* as sfs_update_spatial_hash and sfs_calculate_density apply them.  The   *)
(* coordinates are the values around which a product or the sum passes     *)
(* 2^32, and the ends of the i32 range that get_cell_2d's cast can give.   *)
(***************************************************************************)
HashCoordinates ==
  { -2147483647, -60000, -2, -1, 0, 1, 2, 441, 442, 60000, 271438, 271439,
    2147483647 }

TableSizes == { 1, 2, 3, 7 }

InitHash ==
  /\ sim = StartFn
  /\ pc = "idle"
  /\ delta = 0
  /\ \E x \in HashCoordinates : \E y \in HashCoordinates : \E n \in TableSizes :
       last = [op |-> "get_cell_2d", cell |-> <<x, y>>, table_size |-> n]
  /\ ticks = 0
  /\ cmds = 0
  /\ step = NoStep
  /\ limit = [ticks |-> 0, cmds |-> 0]

HashCell2d ==
  /\ pc = "idle"
  /\ last.op = "get_cell_2d"
  /\ \E trap \in hash_cell_2d_traps(last.cell) :
       IF trap
       THEN pc' = "panic" /\ UNCHANGED last
       ELSE /\ pc' = "idle"
            /\ last' = [op |-> "hash_cell_2d", cell |-> last.cell,
                        table_size |-> last.table_size,
                        hash |-> hash_cell_2d(last.cell)]
  /\ UNCHANGED <<sim, delta, ticks, cmds, step, limit>>

KeyFromHash ==
  /\ pc = "idle"
  /\ last.op = "hash_cell_2d"
  /\ last' = [op |-> "key_from_hash", cell |-> last.cell,
              table_size |-> last.table_size, hash |-> last.hash,
              key |-> key_from_hash(last.hash, last.table_size)]
  /\ UNCHANGED <<sim, pc, delta, ticks, cmds, step, limit>>

NextHash == HashCell2d \/ KeyFromHash

SpecHash == InitHash /\ [][NextHash]_vars

(***************************************************************************)
(* sfs_calculate_viscosity applied to the particle ids one after the other *)
(* between two ticks, from two particles placed directly with velocities   *)
(* of their own and a viscosity_strength of 0 (the value new() sets) or 1. *)
(* last.before holds the velocities the pass started from.                 *)
(***************************************************************************)
ViscosityStrengths == { 0, F(1, 0) }

InitViscosity ==
  /\ \E w \in PairWindows : \E c \in PairCentres : \E o \in PairOffsets :
     \E strength \in ViscosityStrengths : \E v \in OneVelocities : \E sfs \in BOOLEAN :
       sim = [StartPair(w) EXCEPT !.positions = (0 :> c @@ 1 :> VAdd(c, o)),
                                  !.predicted_positions = (0 :> c @@ 1 :> VAdd(c, o)),
                                  !.velocities = (0 :> Vec2(v, 0) @@ 1 :> Vec2(0, F(0, 500))),
                                  !.viscosity_strength = strength,
                                  !.debug.use_sfs = sfs]
  /\ pc = "idle"
  /\ delta = 0
  /\ last = [op |-> "inject"]
  /\ ticks = 0
  /\ cmds = 0
  /\ step = [NoStep EXCEPT !.free_run = TRUE]
  /\ limit = [ticks |-> MaxTicks, cmds |-> 0]

SfsCalculateViscosity ==
  /\ pc = "idle"
  /\ LET id == IF last.op = "sfs_calculate_viscosity" THEN last.id + 1 ELSE 0
     IN /\ id < sim.num_particles
        /\ \E delta_time \in Deltas :
             /\ id > 0 => delta_time = last.delta_time
             /\ sim' = sfs_calculate_viscosity(sim, id, delta_time)
             /\ last' = [op |-> "sfs_calculate_viscosity", id |-> id,
                         delta_time |-> delta_time,
                         before |-> IF id = 0 THEN sim.velocities ELSE last.before]
  /\ UNCHANGED <<pc, delta, ticks, cmds, step, limit>>

NextViscosity == NextFn \/ SfsCalculateViscosity

SpecViscosity == InitViscosity /\ [][NextViscosity]_vars

(***************************************************************************)
(* Properties                                                              *)
(***************************************************************************)
InsideBox(s, i) ==
  /\ Le(Abs(s.positions[i].x), s.half_bounds_size.x)
  /\ Le(Abs(s.positions[i].y), s.half_bounds_size.y)

\* C4: after apply_velocities, in any tick and for any half_bounds_size set by new or
\* on_resize, every particle has |position.x| <= half_bounds_size.x and
\* |position.y| <= half_bounds_size.y.
C4_BoundaryContainment ==
  last.op = "apply_velocities" => \A i \in Ids(sim) : InsideBox(sim, i)

\* C5: after reset(), every particle lies inside the box
\* [-half_bounds_size, +half_bounds_size] on both axes and every velocity is zero.
C5_ResetInBoxAtRest ==
  last.op = "reset" =>
    \A i \in Ids(sim) : InsideBox(sim, i) /\ sim.velocities[i] = ZERO

\* C6: in every state the derived kernel scaling constants are the ones computed from
\* the current smoothing_radius h: 6/(pi h^4), 6/(pi h^4), 10/(pi h^5), 4/(pi h^8),
\* 12/(pi h^4) and 30/(pi h^5).
C6_FactorsFollowRadius ==
  LET h == sim.smoothing_radius
  IN /\ sim.smoothing_scaling_factor = Div(F(6, 0), Mul(PI, Powf(h, 4)))
     /\ sim.spiky_pow2_scaling_factor = Div(F(6, 0), Mul(PI, Powf(h, 4)))
     /\ sim.spiky_pow3_scaling_factor = Div(F(10, 0), Mul(PI, Powf(h, 5)))
     /\ sim.poly6_scaling_factor = Div(F(4, 0), Mul(PI, Powf(h, 8)))
     /\ sim.spiky_pow2_derivative_scaling_factor = Div(F(12, 0), Mul(Powf(h, 4), PI))
     /\ sim.spiky_pow3_derivative_scaling_factor = Div(F(30, 0), Mul(Powf(h, 5), PI))

IMin(a, b) == IF a < b THEN a ELSE b

\* C7: after set_frames_to_show(N) with 0 < N < u32::MAX, exactly the next N ticks run
\* calculate_pressures and apply_velocities, and once N ticks have completed
\* frames_to_advance() is 0: the later ticks are paused.
C7_FrameStepping ==
  (0 < step.n /\ step.n < U32_MAX) =>
    /\ pc = "idle" =>
         /\ step.advanced = IMin(step.ticks, step.n)
         /\ step.applied = IMin(step.ticks, step.n)
         /\ frames_to_advance(sim) = step.n - IMin(step.ticks, step.n)
    /\ pc \in {"densities", "pressures"} => step.ticks < step.n

\* A step of 2 frames that has run its 2 ticks and then a paused third one.
C7_Witness ==
  /\ step.n = 2 /\ step.ticks = 3 /\ pc = "idle"
  /\ step.advanced = 2 /\ step.applied = 2 /\ frames_to_advance(sim) = 0

\* C8: while the simulation free-runs (frames_to_show was u32::MAX at construction or
\* was last set to it), after any number of ticks frames_to_advance() is > 0 and the
\* free-run value has not been consumed by end_frame.
C8_FreeRunKept ==
  step.free_run => frames_to_advance(sim) > 0 /\ sim.debug.frames_to_show = U32_MAX

\* C9: the smoothing radius is strictly positive in every state, and after
\* adj_smoothing_radius(increment) with increment # 0 it is at least |increment|.
C9_RadiusLowerClamp ==
  /\ Gt(sim.smoothing_radius, 0)
  /\ (last.op = "adj_smoothing_radius" /\ last.increment # 0) =>
       Ge(sim.smoothing_radius, Abs(last.increment))

\* The clamp decided the result: h + increment was below |increment|.
C9_Witness ==
  /\ last.op = "adj_smoothing_radius"
  /\ Lt(Add(last.before, last.increment), Abs(last.increment))
  /\ sim.smoothing_radius = Abs(last.increment)

\* Distances around the smoothing radius h of s.
SampleDistances(s) ==
  LET h == s.smoothing_radius
  IN { 0, 1, Div(h, F(2, 0)), Sub(h, 1), h, Add(h, 1), Mul(h, F(2, 0)), F(30, 0), PInf }

\* C10: every kernel and every derivative kernel is exactly 0 at a distance
\* d >= smoothing_radius; at a distance 0 <= d < smoothing_radius the value kernels
\* are >= 0 and the derivative kernels are <= 0.
C10_CompactSupport ==
  \A d \in SampleDistances(sim) :
    LET values == { smoothing_kernel(sim, d), sfs_spiky_kernel_pow2(sim, d),
                    sfs_spiky_kernel_pow3(sim, d), sfs_smoothing_kernel_poly6(sim, d) }
        derivatives == { smoothing_kernel_derivative(sim, d),
                         sfs_derivative_spiky_pow2(sim, d),
                         sfs_derivative_spiky_pow3(sim, d) }
    IN /\ Ge(d, sim.smoothing_radius) => values = {0} /\ derivatives = {0}
       /\ Lt(d, sim.smoothing_radius) =>
            /\ \A v \in values : Ge(v, 0)
            /\ \A v \in derivatives : Le(v, 0)

\* After a change of the radius, the kernels are nonzero inside the support and the
\* sample holds distances on both sides of it.
C10_Witness ==
  /\ last.op = "adj_smoothing_radius"
  /\ sim.smoothing_radius # last.before
  /\ Gt(smoothing_kernel(sim, 0), 0)
  /\ Gt(sfs_smoothing_kernel_poly6(sim, 0), 0)
  /\ Lt(smoothing_kernel_derivative(sim, 0), 0)
  /\ Lt(sfs_derivative_spiky_pow3(sim, 0), 0)
  /\ \E d \in SampleDistances(sim) : Gt(d, sim.smoothing_radius) /\ IsFinite(d)

Distance(s, i, j) == Length(VSub(s.positions[j], s.positions[i]))

\* C1: for distinct particles i, j with 0 < distance < smoothing_radius and the
\* densities calculate_densities has produced, the term pressure_force(i) adds for j
\* is the exact negation of the term pressure_force(j) adds for i.
C1_ForceSymmetry ==
  pc = "densities" =>
    \A i \in Ids(sim) : \A j \in Ids(sim) \ {i} :
      (Gt(Distance(sim, i, j), 0) /\ Lt(Distance(sim, i, j), sim.smoothing_radius)) =>
        pressure_term(sim, i, j, <<0, 0>>) = VNeg(pressure_term(sim, j, i, <<0, 0>>))

\* The ids the 9-cell scan of particle i reaches within the smoothing radius.
RegionNeighbours(s, i) ==
  { j \in Range(scan(s, i)) \ {i} : Lt(Distance(s, i, j), s.smoothing_radius) }

\* The brute-force neighbour set of particle i.
BruteNeighbours(s, i) ==
  { j \in Ids(s) \ {i} : Lt(Distance(s, i, j), s.smoothing_radius) }

\* C2: when all positions lie inside the box, after update_regions the ids the 9-cell
\* scan of a particle reaches within smoothing_radius are exactly its brute-force
\* neighbours, for every particle.
C2_RegionGridComplete ==
  (pc \in {"index", "densities"} /\ \A i \in Ids(sim) : InsideBox(sim, i)) =>
    \A i \in Ids(sim) : RegionNeighbours(sim, i) = BruteNeighbours(sim, i)

\* A particle with a neighbour in the cell diagonal to its own and a third particle
\* out of reach in a cell the scan does not visit.
C2_Witness ==
  /\ pc = "index"
  /\ \A i \in Ids(sim) : InsideBox(sim, i)
  /\ \E i \in Ids(sim) : \E j \in Ids(sim) \ {i} : \E k \in Ids(sim) \ {i, j} :
       /\ j \in RegionNeighbours(sim, i)
       /\ particle_col(sim, i) # particle_col(sim, j)
       /\ particle_row(sim, i) # particle_row(sim, j)
       /\ k \notin Range(scan(sim, i))

\* After a tick has moved the particles: a neighbour in another cell.
C2_WitnessMoved ==
  /\ pc = "index" /\ ticks > 0
  /\ \A i \in Ids(sim) : InsideBox(sim, i)
  /\ \E i \in Ids(sim) : \E j \in Ids(sim) \ {i} :
       /\ j \in RegionNeighbours(sim, i)
       /\ (particle_col(sim, i) # particle_col(sim, j)
             \/ particle_row(sim, i) # particle_row(sim, j))

\* The ids the query loop of sfs_calculate_density reaches for particle i.
HashNeighbours(s, i) == Range(sfs_density_neighbours(s, s.positions[i])) \ {i}

\* C3: with predicted_positions equal to positions, after sfs_update_spatial_hash the
\* hash-grid query of a particle enumerates the neighbours the region-grid query
\* enumerates after update_regions, and the build leaves the triples ordered by key
\* with spatial_offsets[key] at the first entry of each key.
C3_HashGridEquivalent ==
  (pc = "index" /\ sim.debug.use_sfs /\ sim.predicted_positions = sim.positions) =>
    /\ \A i \in Ids(sim) : HashNeighbours(sim, i) = RegionNeighbours(update_regions(sim), i)
    /\ \A a \in Ids(sim) : \A b \in Ids(sim) :
         a < b => sim.spatial_indices[a][3] <= sim.spatial_indices[b][3]
    /\ \A a \in Ids(sim) :
         LET key == sim.spatial_indices[a][3]
             first == sim.spatial_offsets[key]
         IN /\ first <= a
            /\ sim.spatial_indices[first][3] = key
            /\ \A b \in 0..first - 1 : sim.spatial_indices[b][3] # key

\* C11: for every particle and every configuration of positions, both components of
\* the density pair written by calculate_densities are >= 0.
C11_DensityNonNegative ==
  \A i \in Ids(sim) : Ge(sim.densities[i][1], 0) /\ Ge(sim.densities[i][2], 0)

\* calculate_densities has written a positive density for a particle with a
\* neighbour and the density 0 for a particle without one.
C11_Witness ==
  /\ last.op = "calculate_densities"
  /\ \E i \in Ids(sim) : Gt(sim.densities[i][1], 0) /\ BruteNeighbours(sim, i) # {}
  /\ \E i \in Ids(sim) : sim.densities[i][1] = 0 /\ BruteNeighbours(sim, i) = {}

\* The step of apply_velocities in a tick of a single particle.
OneParticleMoves == pc = "pressures" /\ pc' = "frame" /\ sim.num_particles = 1

\* Where apply_velocity puts particle 0 before resolve_collisions.
Moved == VAdd(sim.positions[0], sim.velocities[0])

\* C12: for a single particle whose x-position is outside half_bounds_size.x before
\* the tick, the tick leaves its x-position at half_bounds_size.x times the sign of
\* its x-position and its x-velocity at the pre-collision x-velocity times
\* -collision_damping; y is left as moved when |y| <= half_bounds_size.y.
C12_WallBounce ==
  [][(OneParticleMoves /\ Gt(Abs(sim.positions[0].x), sim.half_bounds_size.x)) =>
       /\ sim'.positions[0].x = Mul(sim.half_bounds_size.x, Signum(sim.positions[0].x))
       /\ sim'.velocities[0].x = Mul(sim.velocities[0].x, Neg(sim.collision_damping))
       /\ Le(Abs(Moved.y), sim.half_bounds_size.y) =>
            sim'.positions[0].y = Moved.y /\ sim'.velocities[0].y = sim.velocities[0].y]_vars

\* C12 amended: the same for a single particle whose x-position is outside
\* half_bounds_size.x after the velocity of the tick has been added to it, with the
\* sign of that moved x-position.
C12_WallBounceMoved ==
  [][(OneParticleMoves /\ Gt(Abs(Moved.x), sim.half_bounds_size.x)) =>
       /\ sim'.positions[0].x = Mul(sim.half_bounds_size.x, Signum(Moved.x))
       /\ sim'.velocities[0].x = Mul(sim.velocities[0].x, Neg(sim.collision_damping))
       /\ Le(Abs(Moved.y), sim.half_bounds_size.y) =>
            sim'.positions[0].y = Moved.y /\ sim'.velocities[0].y = sim.velocities[0].y]_vars

\* A single particle on the right wall with a velocity pointing back inside, and
\* inside the box on the y axis: it has bounced.
C12_Witness ==
  /\ last.op = "apply_velocities" /\ sim.num_particles = 1
  /\ sim.positions[0].x = sim.half_bounds_size.x
  /\ Lt(sim.velocities[0].x, 0)
  /\ Lt(Abs(sim.positions[0].y), sim.half_bounds_size.y)

\* Particles 0 and 1 are half a smoothing radius apart, up to the rounding of length().
AtHalfRadius ==
  Le(Abs(Sub(Distance(sim, 0, 1), Div(sim.smoothing_radius, F(2, 0)))), F(0, 2))

\* The step of apply_velocities in the first tick of two particles at rest, half a
\* smoothing radius apart, each with a density above target_density.
PairRepels ==
  /\ pc = "pressures" /\ pc' = "frame" /\ ticks = 0
  /\ sim.num_particles = 2
  /\ AtHalfRadius
  /\ sim.gravity = ZERO /\ sim.interaction_input_strength = 0
  /\ Lt(sim.target_density, sim.densities[0][1])
  /\ Lt(sim.target_density, sim.densities[1][1])

\* C13: two particles at distance 0.5 * smoothing_radius, at rest, without gravity
\* and interaction input, far from the walls and with target_density below the
\* density each gives the other: after one tick their distance is strictly larger.
C13_PairRepulsion ==
  [][PairRepels => Gt(Distance(sim', 0, 1), Distance(sim, 0, 1))]_vars

\* The first tick has moved two such particles further apart than half a
\* smoothing radius, inside the box.
C13_Witness ==
  /\ last.op = "apply_velocities" /\ ticks = 0 /\ sim.num_particles = 2
  /\ Lt(sim.target_density, sim.densities[0][1])
  /\ Gt(Distance(sim, 0, 1), Add(Div(sim.smoothing_radius, F(2, 0)), F(0, 2)))
  /\ \A i \in Ids(sim) : Lt(Abs(sim.positions[i].x), sim.half_bounds_size.x)
                         /\ Lt(Abs(sim.positions[i].y), sim.half_bounds_size.y)

\* The four per-particle arrays have one entry for every particle id.
ArrayLengths ==
  /\ DOMAIN sim.positions = Ids(sim)
  /\ DOMAIN sim.predicted_positions = Ids(sim)
  /\ DOMAIN sim.velocities = Ids(sim)
  /\ DOMAIN sim.densities = Ids(sim)

\* Entry i of every array written by a step is the value of particle i, computed
\* from the entries i of the arrays before the step (reset places every particle
\* anew and, like reset_inertia, puts every velocity to zero); a step that writes no
\* array leaves all four as they are.
EntriesFollowIds ==
  /\ sim'.num_particles = sim.num_particles
  /\ CASE pc = "index" ->
            /\ \A i \in Ids(sim) :
                 sim'.densities[i] = IF sim.debug.use_sfs
                                       THEN sfs_calculate_density(sim, sim.positions[i])
                                       ELSE calculate_density(sim, i)
            /\ UNCHANGED <<sim.positions, sim.predicted_positions, sim.velocities>>
       [] pc = "densities" ->
            /\ \E random \in ForceDraws(sim) : \A i \in Ids(sim) :
                 sim'.velocities[i] = calculate_pressure(sim, i, delta, random[i])
            /\ \A i \in Ids(sim) :
                 sim'.predicted_positions[i] =
                   VAdd(sim.positions[i], VMul(sim'.velocities[i], sim.prediction_factor))
            /\ UNCHANGED <<sim.positions, sim.densities>>
       [] pc = "pressures" ->
            /\ \A i \in Ids(sim) :
                 /\ sim'.positions[i] = apply_velocity(sim, i).positions[i]
                 /\ sim'.velocities[i] = apply_velocity(sim, i).velocities[i]
            /\ UNCHANGED <<sim.predicted_positions, sim.densities>>
       [] pc = "idle" /\ pc' = "idle" /\ last'.op = "reset" ->
            /\ \E random \in PlacementDraws(sim) : \A i \in Ids(sim) :
                 /\ sim'.positions[i] = place_particles(sim, random).positions[i]
                 /\ sim'.predicted_positions[i] = sim'.positions[i]
            /\ \A i \in Ids(sim) : sim'.velocities[i] = ZERO
            /\ UNCHANGED sim.densities
       [] pc = "idle" /\ pc' = "idle" /\ last'.op = "toggle_inertia" ->
            /\ \/ UNCHANGED sim.velocities
               \/ \A i \in Ids(sim) : sim'.velocities[i] = ZERO
            /\ UNCHANGED <<sim.positions, sim.predicted_positions, sim.densities>>
       [] OTHER ->
            UNCHANGED <<sim.positions, sim.predicted_positions, sim.velocities,
                        sim.densities>>

\* C14: in every state reached from new() by ticks, reset, on_resize, adj_* and
\* toggle_* calls, positions, predicted_positions, velocities and densities have
\* num_particles entries, and the entry at index i stays the one of particle i.
C14_ArraysAligned == []ArrayLengths /\ [][EntriesFollowIds]_vars

\* A tick after a command has moved two particles with different velocities.
C14_Witness ==
  /\ last.op = "apply_velocities" /\ cmds > 0 /\ ticks > 0
  /\ sim.num_particles = 2
  /\ sim.velocities[0] # sim.velocities[1]
  /\ sim.positions[0] # sim.positions[1]

\* C15: for every particle count, 0 and 1 included, and every value of log_frame and
\* current_frame, a tick followed by end_frame completes without a panic.
C15_NoPanic == pc # "panic"

\* A step of a tick (every step of update_particles and end_frame moves pc) taken
\* while paused: debug.frames_to_show, the value frames_to_advance() reports, is 0.
PausedTickStep == pc' # pc /\ sim.debug.frames_to_show = 0

\* C16: a tick with frames_to_advance() == 0 leaves the positions, velocities and
\* predicted_positions of every particle unchanged, for any number of consecutive
\* paused ticks.
C16_PausedTickKeepsMotion ==
  [][PausedTickStep =>
       UNCHANGED <<sim.positions, sim.velocities, sim.predicted_positions>>]_vars

\* Two consecutive paused ticks have ended, after a tick that had set the
\* particles in motion.
C16_Witness ==
  /\ last.op = "end_frame" /\ sim.debug.frames_to_show = 0
  /\ step.ticks >= 2 /\ step.advanced = 0
  /\ \E i \in Ids(sim) : sim.velocities[i] # ZERO

\* The region grid is the one update_regions builds from the present positions.
RegionsFresh ==
  LET rebuilt == update_regions(sim)
  IN /\ sim.region_rows = rebuilt.region_rows
     /\ sim.region_cols = rebuilt.region_cols
     /\ sim.regions = rebuilt.regions

\* The hash grid is the one sfs_update_spatial_hash builds from the present positions.
HashFresh ==
  sim.spatial_indices =
    sfs_update_spatial_hash([sim EXCEPT !.predicted_positions = sim.positions]).spatial_indices

\* C17: for both values of debug.use_sfs, the index read by the neighbour queries of
\* a tick (the density queries that follow update_index, the pressure_force queries
\* that follow calculate_densities) is the one rebuilt in this tick from the
\* positions the particles have at the time of the query.
C17_NoStaleIndex ==
  /\ pc = "index" => IF sim.debug.use_sfs THEN HashFresh ELSE RegionsFresh
  /\ pc = "densities" => RegionsFresh

\* C18: with use_inertia and use_viscosity both enabled, the velocity calculate_pressure
\* returns for any particle has a length of at most speed_limit * particle_size * delta.
C18_SpeedClamp ==
  (last.op = "calculate_pressures" /\ sim.debug.use_inertia /\ sim.debug.use_viscosity) =>
    \A i \in Ids(sim) :
      Le(Length(sim.velocities[i]), Mul(Mul(sim.speed_limit, sim.particle_size), delta))

\* Previous velocities to compare a state with: all particles at rest, all moving.
OtherVelocities(s) ==
  { [i \in Ids(s) |-> ZERO], [i \in Ids(s) |-> Vec2(F(1, 0), Neg(F(1, 0)))] }

\* C19: with debug.use_inertia == false, two states that differ only in the previous
\* velocities of the particles get the same new velocities from calculate_pressures,
\* also while an interaction input is active.
C19_InertiaOffNoCarryOver ==
  (pc = "densities" /\ ~sim.debug.use_inertia) =>
    \A other \in OtherVelocities(sim) : \A random \in ForceDraws(sim) :
      calculate_pressures([sim EXCEPT !.velocities = other], delta, random).velocities
        = calculate_pressures(sim, delta, random).velocities

\* When calculate_pressures is about to read them, the densities are the ones
\* calculate_densities computes for the present positions, for every particle.
DensitiesComplete ==
  pc = "densities" =>
    \A i \in Ids(sim) :
      sim.densities[i] = IF sim.debug.use_sfs
                           THEN sfs_calculate_density(sim, sim.positions[i])
                           ELSE calculate_density(sim, i)

\* calculate_pressures computes the velocity of every particle from the state the
\* phase started in.
PressuresFromSnapshot ==
  (pc = "densities" /\ pc' = "pressures") =>
    \E random \in ForceDraws(sim) : \A i \in Ids(sim) :
      sim'.velocities[i] = calculate_pressure(sim, i, delta, random[i])

\* The velocity sfs_calculate_viscosity has written for particle last.id is the one
\* it computes from the velocities the pass over the ids started from.
ViscosityFromSnapshot ==
  last.op = "sfs_calculate_viscosity" =>
    sim.velocities[last.id] =
      sfs_calculate_viscosity([sim EXCEPT !.velocities = last.before],
                              last.id, last.delta_time).velocities[last.id]

\* C20: within a tick every density is written before a pressure force reads one, and
\* in the velocity phase no new velocity is computed from a velocity already updated
\* in the same phase: calculate_densities, calculate_pressures and
\* sfs_calculate_viscosity applied to successive particle ids read the snapshot of
\* the previous phase only.
C20_PhaseIsolation ==
  [](DensitiesComplete /\ ViscosityFromSnapshot) /\ [][PressuresFromSnapshot]_vars

\* The parameters the tick reads: the ones the keyboard, the mouse and a resize set.
Parameters(s) ==
  <<s.smoothing_radius, s.smoothing_scaling_factor, s.smoothing_derivative_scaling_factor,
    s.gravity, s.half_bounds_size, s.interaction_input_strength, s.interaction_input_point,
    s.interaction_input_radius, s.debug.use_sfs, s.debug.use_inertia, s.debug.use_viscosity,
    s.debug.frames_to_show>>

\* A step of update_particles from the index rebuild to the collision step.
InsideTick == pc' = "index" \/ pc \in {"index", "densities", "pressures"}

\* C21: in any interleaving of update_particles, handle_keypress, handle_mouse_clicks
\* and on_resize, no change to smoothing_radius, gravity, half_bounds_size,
\* interaction_input_* or the debug flags takes effect between the index rebuild and
\* the collision step of one update_particles call.
C21_ParametersFixedInTick ==
  [][InsideTick => Parameters(sim') = Parameters(sim)]_vars

\* A tick is between calculate_pressures and the collision step, after an earlier
\* tick and a command that changed a parameter.
C21_Witness ==
  /\ pc = "pressures" /\ ticks > 0 /\ cmds > 0
  /\ \E created \in { new(args, win[1], win[2]) : args \in ArgsChoices, win \in StartWindows } :
       <<sim.smoothing_radius, sim.gravity, sim.half_bounds_size, sim.debug.use_inertia>>
         # <<created.smoothing_radius, created.gravity, created.half_bounds_size,
             created.debug.use_inertia>>

\* A pass of handle_mouse_clicks: last' holds whether a button was pressed and
\* whether the cursor mapped to a world point.
MousePass == pc = "idle" /\ pc' = "idle" /\ last'.op = "handle_mouse_clicks"

\* C22: at the end of every handle_mouse_clicks pass interaction_input_strength is
\* non-zero only if a mouse button is pressed and the cursor maps to a world point;
\* in every other case it is 0, whatever it was before, and interaction_input_point
\* is left unchanged.
C22_StrengthTransient ==
  [][MousePass =>
       IF last'.pressed /\ last'.mapped
         THEN sim'.interaction_input_strength # 0
         ELSE /\ sim'.interaction_input_strength = 0
              /\ sim'.interaction_input_point = sim.interaction_input_point]_vars

\* A pass without a pressed button has ended after a pass that had set a strength
\* and a point: the strength is back to 0 and the point is the one of before.
C22_Witness ==
  /\ last.op = "handle_mouse_clicks" /\ ~last.pressed /\ cmds >= 2
  /\ sim.interaction_input_strength = 0
  /\ sim.interaction_input_point # ZERO

\* C23: no direction is obtained by a division by a zero distance, neither for two
\* particles at the same position in pressure_force nor for a particle at
\* interaction_input_point in external_forces while the strength is not 0: the
\* velocity and the position a tick gives every particle are finite.
C23_ZeroDistanceFinite ==
  last.op \in {"calculate_pressures", "apply_velocities"} =>
    \A i \in Ids(sim) : VFinite(sim.velocities[i]) /\ VFinite(sim.positions[i])

\* n is floor(extent / h) + 1, and 1 for a negative extent (`as usize` of a negative
\* value is 0); n is ceil(extent / h) + 1.
IsFloorPlusOne(n, extent, h) ==
  IF extent < 0 THEN n = 1 ELSE (n - 1) * h <= extent /\ extent < n * h
IsCeilPlusOne(n, extent, h) ==
  IF extent <= 0 THEN n = 1 ELSE (n - 2) * h < extent /\ extent <= (n - 1) * h

\* regions is a grid of region_rows x region_cols buckets.
GridShape ==
  /\ DOMAIN sim.regions = 0..sim.region_rows - 1
  /\ \A row \in DOMAIN sim.regions : DOMAIN sim.regions[row] = 0..sim.region_cols - 1

\* update_regions has just run.
RegionsBuilt == last.op = "update_index" /\ ~sim.debug.use_sfs

\* C24: after a change of smoothing_radius or half_bounds_size the next update_regions
\* has the grid dimensions cols = ceil(width / h) + 1 and rows = ceil(height / h) + 1
\* and a bucket storage of exactly rows x cols buckets.
C24_GridCeil ==
  RegionsBuilt =>
    /\ IsCeilPlusOne(sim.region_cols, Mul(sim.half_bounds_size.x, F(2, 0)), sim.smoothing_radius)
    /\ IsCeilPlusOne(sim.region_rows, Mul(sim.half_bounds_size.y, F(2, 0)), sim.smoothing_radius)
    /\ GridShape

\* C24 amended: the dimensions are cols = floor(width / h) + 1 and
\* rows = floor(height / h) + 1 (1 for a negative width or height).
C24_GridFloor ==
  RegionsBuilt =>
    /\ IsFloorPlusOne(sim.region_cols, Mul(sim.half_bounds_size.x, F(2, 0)), sim.smoothing_radius)
    /\ IsFloorPlusOne(sim.region_rows, Mul(sim.half_bounds_size.y, F(2, 0)), sim.smoothing_radius)
    /\ GridShape

\* update_regions has rebuilt the grid of a box that a resize has made larger than
\* the one of the first build.
C24_Witness ==
  /\ RegionsBuilt /\ ticks > 0 /\ cmds > 0
  /\ sim.region_cols > 1 /\ sim.region_rows > 1

\* The cells whose x*K1 + y*K2 can be written down directly.
SmallCell(cell) ==
  /\ cell[1] >= -60000 /\ cell[1] <= 60000
  /\ cell[2] >= -100 /\ cell[2] <= 100

HashValueExact ==
  last.op \in { "hash_cell_2d", "key_from_hash" } =>
    /\ SmallCell(last.cell) =>
         last.hash = I32AsU32(last.cell[1] * HASH_K1 + last.cell[2] * HASH_K2)
    \* 271439 * 15823 = 2^32 + 12001
    /\ last.cell = <<271439, 0>> => last.hash = U32(12001)

KeyIsRemainder ==
  last.op = "key_from_hash" =>
    /\ last.key \in 0..(last.table_size - 1)
    /\ last.hash[1] < Half \div 2 =>
         last.key = (last.hash[1] * Half + last.hash[2]) % last.table_size

\* C25: for every cell of i32 coordinates, negative ones and ones whose products
\* pass 32 bits included, hash_cell_2d returns (x*K1 + y*K2) mod 2^32 and does
\* not panic, and key_from_hash(hash, N) is hash mod N, a value in 0..N-1.
C25_HashArithmetic ==
  /\ pc # "panic"
  /\ HashValueExact
  /\ KeyIsRemainder

\* What stays of C25 in a build without overflow checks.
C25_WrappedHash == HashValueExact /\ KeyIsRemainder

\* The places (row, column, index) at which id i stands in the region grid.
Places(s, i) ==
  { place \in (DOMAIN s.regions) \X (0..s.region_cols - 1) \X (1..s.num_particles + 1) :
      /\ place[2] \in DOMAIN s.regions[place[1]]
      /\ place[3] \in DOMAIN s.regions[place[1]][place[2]]
      /\ s.regions[place[1]][place[2]][place[3]] = i }

BucketEntries(s) ==
  UNION { UNION { Range(s.regions[row][col]) : col \in DOMAIN s.regions[row] } :
          row \in DOMAIN s.regions }

BucketsBounded(s) ==
  \A row \in DOMAIN s.regions : \A col \in DOMAIN s.regions[row] :
    Len(s.regions[row][col]) <= s.num_particles

\* C26: after every update_regions, region_rows >= 1 and region_cols >= 1,
\* regions has region_rows x region_cols buckets, and every particle id stands in
\* exactly one bucket exactly once, particles outside the box included; the
\* buckets hold nothing else.
C26_RegionPartition ==
  RegionsBuilt =>
    /\ sim.region_rows >= 1
    /\ sim.region_cols >= 1
    /\ GridShape
    /\ BucketsBounded(sim)
    /\ BucketEntries(sim) \subseteq Ids(sim)
    /\ \A i \in Ids(sim) : Cardinality(Places(sim, i)) = 1

\* A build over the buckets of an earlier tick with a particle outside the box.
C26_Witness ==
  /\ RegionsBuilt
  /\ ticks > 0
  /\ sim.region_rows > 1
  /\ \E i \in Ids(sim) : ~InsideBox(sim, i)

\* j is reached within radius by the 9-cell scan of i.
Reaches(s, i, j) ==
  /\ j # i
  /\ j \in Range(scan(s, i))
  /\ Lt(Length(VSub(s.positions[j], s.positions[i])), s.smoothing_radius)

NeighbourSymmetric ==
  \A i \in Ids(sim) : \A j \in Ids(sim) : Reaches(sim, i, j) <=> Reaches(sim, j, i)

OwnBucketScanned == \A i \in Ids(sim) : i \in Range(scan(sim, i))

\* C27: after update_regions, j is reached within radius by the 9-cell scan of i
\* iff i is reached by the scan of j, and the bucket in which update_regions
\* stores a particle is one of the cells that particle's own scan visits, also
\* after on_resize has shrunk the box and left particles outside it.
C27_NeighbourSymmetry == RegionsBuilt => NeighbourSymmetric /\ OwnBucketScanned

\* The first half of C27 alone.
C27_SymmetryOnly == RegionsBuilt => NeighbourSymmetric

\* pressure_force(id) reaches the division by densities[i].0 for neighbour i.
Divides(s, id, i) ==
  LET distance == Length(VSub(s.positions[i], s.positions[id]))
  IN /\ i # id
     /\ i \in Range(scan(s, id))
     /\ ~Ge(distance, s.smoothing_radius)
     /\ distance # 0

\* C28: whenever pressure_force(id) divides by densities[i].0 for a neighbour i
\* at a distance between 0 and smoothing_radius, that density, written by the
\* density pass of the same tick, is strictly positive.
C28_PositiveDivisor ==
  pc = "densities" =>
    \A id \in Ids(sim) : \A i \in Ids(sim) :
      Divides(sim, id, i) => Gt(sim.densities[i][1], 0)

PauseStep == cmds' = cmds + 1 /\ last'.op = "pause"

\* An N-frame step is in progress: the last set_frames_to_show asked for N frames.
Stepping == 0 < step.n /\ step.n < U32_MAX

\* C29: the pause command sets frames_to_show to u32::MAX iff it was 0 and to 0
\* otherwise; a pause during an N-frame step with frames left pauses the
\* simulation, and a pause after the step has paused by itself resumes free run.
C29_PauseToggle ==
  [][PauseStep =>
       /\ sim'.debug.frames_to_show =
            (IF sim.debug.frames_to_show = 0 THEN U32_MAX ELSE 0)
       /\ Stepping /\ step.ticks < step.n => sim'.debug.frames_to_show = 0
       /\ Stepping /\ step.ticks >= step.n => sim'.debug.frames_to_show = U32_MAX]_vars

\* A pause that resumed a simulation that had stepped N frames and stopped.
C29_Witness ==
  /\ last.op = "pause"
  /\ 0 < last.step.n /\ last.step.n < U32_MAX
  /\ last.step.ticks >= last.step.n
  /\ last.before = 0
  /\ sim.debug.frames_to_show = U32_MAX

\* A pause in the middle of a two-frame step.
C29_PausedInStep ==
  /\ last.op = "pause"
  /\ last.step.n = 2 /\ last.step.ticks = 1
  /\ last.before = 1
  /\ sim.debug.frames_to_show = 0

AdjGravityStep == cmds' = cmds + 1 /\ last'.op = "adj_gravity"

\* C30: after any adj_gravity(increment), for any sign and magnitude of the
\* increment and any number of repetitions, gravity.y <= 0, and the call leaves
\* gravity.x as it was.
C30_GravityNeverUp ==
  [][AdjGravityStep =>
       /\ Le(sim'.gravity.y, 0)
       /\ sim'.gravity.x = sim.gravity.x]_vars

\* A repeated adj_gravity whose sum was above 0 and was brought back to 0.
C30_Witness ==
  /\ last.op = "adj_gravity"
  /\ "increment" \in DOMAIN last
  /\ cmds >= 2
  /\ Gt(Add(last.before.y, last.increment), 0)
  /\ sim.gravity.y = 0

=============================================================================
